---- MODULE Spec2Model ----
(***************************************************************************)
(* prism-app: the topic-analysis pipeline (POST /api/analyze), its source  *)
(* clients, the Reddit credential provider, the Gemini call, and the       *)
(* analysis page's validation of the response.                             *)
(*                                                                         *)
(* JavaScript values are tagged records.  A JavaScript string is a         *)
(* sequence of atoms (an atom stands for a run of characters that the      *)
(* code never splits); JSON text is such a string, and JSON.parse and      *)
(* JSON.stringify work on its atoms.                                       *)
(***************************************************************************)
EXTENDS Integers, Sequences, FiniteSets, TLC

(***************************************************************************)
(* JavaScript values                                                       *)
(***************************************************************************)
Undefined == [t |-> "undef"]
JNull == [t |-> "null"]
Bool(b) == [t |-> "bool", v |-> b]
Num(n) == [t |-> "num", v |-> n]
Str(s) == [t |-> "str", v |-> s]
Arr(s) == [t |-> "arr", v |-> s]
Obj(f) == [t |-> "obj", v |-> f]

NoProps == [k \in {} |-> Undefined]
EmptyObj == Obj(NoProps)
EmptyArr == Arr(<<>>)
EmptyStr == Str(<<>>)

\* A property name made of one atom, and an object literal with one property.
K(a) == <<a>>
Prop(a, val) == K(a) :> val

IsString(x) == x.t = "str"
IsArray(x) == x.t = "arr"
IsObject(x) == x.t = "obj"
IsNullish(x) == x.t \in {"undef", "null"}

\* ToBoolean: what !x, x || y and x ? a : b test.
Truthy(x) ==
  CASE x.t = "undef" -> FALSE
    [] x.t = "null" -> FALSE
    [] x.t = "bool" -> x.v
    [] x.t = "num" -> x.v # 0
    [] x.t = "str" -> Len(x.v) > 0
    [] OTHER -> TRUE

\* a || b
OrElse(a, b) == IF Truthy(a) THEN a ELSE b

\* Decimal literals of the numbers the model uses, and back.
DigitAtoms ==
  <<"1", "2", "3", "4", "5", "6", "7", "8", "9", "10", "11", "12", "13", "14", "15", "16">>
NumberAtom(n) == IF n = 0 THEN "0" ELSE DigitAtoms[n]
IsNumberAtom(a) == a = "0" \/ \E i \in 1..Len(DigitAtoms) : DigitAtoms[i] = a
NumberOfAtom(a) ==
  IF a = "0" THEN 0 ELSE CHOOSE i \in 1..Len(DigitAtoms) : DigitAtoms[i] = a

\* The own enumerable properties of a value, as the spread {...x} copies them:
\* an object's properties, an array's and a string's indexed elements, and
\* nothing for undefined, null, numbers and booleans.
OwnProps(x) ==
  CASE x.t = "obj" -> x.v
    [] x.t = "arr" -> [k \in {K(NumberAtom(i - 1)) : i \in 1..Len(x.v)} |->
                         x.v[NumberOfAtom(k[1]) + 1]]
    [] x.t = "str" -> [k \in {K(NumberAtom(i - 1)) : i \in 1..Len(x.v)} |->
                         Str(<<x.v[NumberOfAtom(k[1]) + 1]>>)]
    [] OTHER -> NoProps

\* x.name for a value x that is not undefined or null (reading a property of
\* undefined or null throws a TypeError, which the callers model).
Get(x, a) ==
  LET props == OwnProps(x)
  IN IF K(a) \in DOMAIN props THEN props[K(a)] ELSE Undefined

\* x?.name
GetOpt(x, a) == IF IsNullish(x) THEN Undefined ELSE Get(x, a)

\* The outcome of s.map(F) for a callback F that may throw, from the outcomes
\* of the calls of F in order: the first throw, or the array of the results.
MapOrThrow(out) ==
  IF \E i \in 1..Len(out) : out[i].threw
  THEN out[CHOOSE i \in 1..Len(out) : out[i].threw /\ \A j \in 1..(i - 1) : ~out[j].threw]
  ELSE [threw |-> FALSE, val |-> Arr([i \in 1..Len(out) |-> out[i].val])]

\* Outcome of an operation that may throw.
Return(val) == [threw |-> FALSE, val |-> val]
Throw(name, message) == [threw |-> TRUE, err |-> [name |-> name, message |-> message]]

\* TypeError of reading property a of undefined or null.
CannotRead(x, a) ==
  Throw("TypeError",
        <<"Cannot", "read", "properties", "of",
          IF x.t = "null" THEN "null" ELSE "undefined", "reading", a>>)

(***************************************************************************)
(* JSON.parse                                                              *)
(***************************************************************************)
Quote == "\""
EscapedQuote == "\\\""

\* A parse step's result: the value and the position after it, or the
\* offending atom ("" at the end of the input).
ParseOk(val, next) == [ok |-> TRUE, val |-> val, next |-> next]
ParseFail(tok) == [ok |-> FALSE, tok |-> tok]
AtomAt(toks, i) == IF i > Len(toks) THEN "" ELSE toks[i]

\* The string literal whose opening quote is at i - 1: the atoms up to the
\* closing quote, an escaped quote read as a quote.
ParseString(toks, i) ==
  IF \A j \in i..Len(toks) : toks[j] # Quote THEN ParseFail("")
  ELSE LET close == CHOOSE j \in i..Len(toks) :
                      toks[j] = Quote /\ \A k \in i..(j - 1) : toks[k] # Quote
       IN ParseOk(Str([k \in 1..(close - i) |->
                         IF toks[i + k - 1] = EscapedQuote THEN Quote
                         ELSE toks[i + k - 1]]),
                  close + 1)

RECURSIVE ParseValue(_, _)
RECURSIVE ParseElements(_, _, _)
RECURSIVE ParseMembers(_, _, _)

\* After an element e of an array: "," and the next element, or "]".
ElementsAfter(toks, acc, e) ==
  IF ~e.ok THEN e
  ELSE CASE AtomAt(toks, e.next) = "]" -> ParseOk(Arr(Append(acc, e.val)), e.next + 1)
         [] AtomAt(toks, e.next) = "," -> ParseElements(toks, e.next + 1, Append(acc, e.val))
         [] OTHER -> ParseFail(AtomAt(toks, e.next))

\* After a member's value m: "," and the next member, or "}".  A repeated
\* name keeps its last value.
MembersAfterValue(toks, acc, name, m) ==
  IF ~m.ok THEN m
  ELSE CASE AtomAt(toks, m.next) = "}" ->
              ParseOk(Obj((name.val.v :> m.val) @@ acc), m.next + 1)
         [] AtomAt(toks, m.next) = "," ->
              ParseMembers(toks, m.next + 1, (name.val.v :> m.val) @@ acc)
         [] OTHER -> ParseFail(AtomAt(toks, m.next))

\* After a member's name: ":" and the value.
MembersAfterName(toks, acc, name) ==
  IF ~name.ok THEN name
  ELSE IF AtomAt(toks, name.next) # ":" THEN ParseFail(AtomAt(toks, name.next))
  ELSE MembersAfterValue(toks, acc, name, ParseValue(toks, name.next + 1))

\* The value that starts with the atom h at i.
ValueAt(toks, i, h) ==
  CASE h = "" -> ParseFail("")
    [] h = Quote -> ParseString(toks, i + 1)
    [] h = "null" -> ParseOk(JNull, i + 1)
    [] h = "true" -> ParseOk(Bool(TRUE), i + 1)
    [] h = "false" -> ParseOk(Bool(FALSE), i + 1)
    [] h = "[" -> IF AtomAt(toks, i + 1) = "]" THEN ParseOk(EmptyArr, i + 2)
                  ELSE ParseElements(toks, i + 1, <<>>)
    [] h = "{" -> IF AtomAt(toks, i + 1) = "}" THEN ParseOk(EmptyObj, i + 2)
                  ELSE ParseMembers(toks, i + 1, NoProps)
    [] OTHER -> IF IsNumberAtom(h) THEN ParseOk(Num(NumberOfAtom(h)), i + 1)
                ELSE ParseFail(h)

ParseValue(toks, i) == ValueAt(toks, i, AtomAt(toks, i))

\* After "[" or ",": a value, then "," or "]".
ParseElements(toks, i, acc) == ElementsAfter(toks, acc, ParseValue(toks, i))

\* After "{" or ",": a string, ":", a value, then "," or "}".
ParseMembers(toks, i, acc) ==
  IF AtomAt(toks, i) # Quote THEN ParseFail(AtomAt(toks, i))
  ELSE MembersAfterName(toks, acc, ParseString(toks, i + 1))

\* The SyntaxError of JSON.parse names the offending token of the text
\* (V8: "Unexpected token < in JSON at position 0"); the position is left out.
JSONSyntaxError(tok) ==
  IF tok = ""
  THEN Throw("SyntaxError", <<"Unexpected", "end", "of", "JSON", "input">>)
  ELSE Throw("SyntaxError", <<"Unexpected", "token", tok, "in", "JSON">>)

\* JSON.parse from the parse r of the text's first value: nothing may follow.
ParsedText(text, r) ==
  IF ~r.ok THEN JSONSyntaxError(r.tok)
  ELSE IF r.next <= Len(text) THEN JSONSyntaxError(text[r.next])
  ELSE Return(r.val)

JSONparse(text) == ParsedText(text, ParseValue(text, 1))

(***************************************************************************)
(* JSON.stringify                                                          *)
(***************************************************************************)
EscapeText(s) ==
  [i \in 1..Len(s) |-> IF s[i] = Quote THEN EscapedQuote ELSE s[i]]

StringLiteral(s) == <<Quote>> \o EscapeText(s) \o <<Quote>>

RECURSIVE JSONstringify(_)
RECURSIVE StringifyElements(_)
RECURSIVE StringifyMembers(_, _)

\* undefined inside an array is written as null.
StringifyElements(s) ==
  IF s = <<>> THEN <<>>
  ELSE (IF Head(s).t = "undef" THEN <<"null">> ELSE JSONstringify(Head(s)))
       \o (IF Len(s) > 1 THEN <<",">> ELSE <<>>)
       \o StringifyElements(Tail(s))

\* A property whose value is undefined is left out.
StringifyMembers(f, names) ==
  IF names = {} THEN <<>>
  ELSE LET n == CHOOSE k \in names : TRUE
           rest == names \ {n}
       IN StringLiteral(n) \o <<":">> \o JSONstringify(f[n])
          \o (IF rest # {} THEN <<",">> ELSE <<>>)
          \o StringifyMembers(f, rest)

JSONstringify(x) ==
  CASE x.t = "null" -> <<"null">>
    [] x.t = "bool" -> <<IF x.v THEN "true" ELSE "false">>
    [] x.t = "num" -> <<NumberAtom(x.v)>>
    [] x.t = "str" -> StringLiteral(x.v)
    [] x.t = "arr" -> <<"[">> \o StringifyElements(x.v) \o <<"]">>
    [] x.t = "obj" -> <<"{">>
                      \o StringifyMembers(x.v, {k \in DOMAIN x.v : x.v[k].t # "undef"})
                      \o <<"}">>

(***************************************************************************)
(* String conversion and encoding                                          *)
(***************************************************************************)
RECURSIVE StringOf(_)
RECURSIVE JoinElements(_)

\* Array.prototype.join(","): undefined and null elements give "".
JoinElements(s) ==
  IF s = <<>> THEN <<>>
  ELSE (IF IsNullish(Head(s)) THEN <<>> ELSE StringOf(Head(s)))
       \o (IF Len(s) > 1 THEN <<",">> ELSE <<>>)
       \o JoinElements(Tail(s))

\* String(x), as a template literal `${x}` and JSON.parse(x) convert x.
StringOf(x) ==
  CASE x.t = "undef" -> <<"undefined">>
    [] x.t = "null" -> <<"null">>
    [] x.t = "bool" -> <<IF x.v THEN "true" ELSE "false">>
    [] x.t = "num" -> <<NumberAtom(x.v)>>
    [] x.t = "str" -> x.v
    [] x.t = "arr" -> JoinElements(x.v)
    [] x.t = "obj" -> <<"[object Object]">>

\* encodeURIComponent: a space becomes %20, unreserved atoms are kept.
encodeURIComponent(s) ==
  [i \in 1..Len(s) |-> IF s[i] = " " THEN "%20" ELSE s[i]]

(***************************************************************************)
(* HTTP replies as the callee of fetch() sees them                         *)
(***************************************************************************)
\* fetch() rejected: no reply at all.
NetworkFailure == [failed |-> TRUE, ok |-> FALSE, status |-> "0", body |-> <<>>]
HttpReply(status, body) ==
  [failed |-> FALSE, ok |-> status = "200", status |-> status, body |-> body]

FetchFailed == Throw("TypeError", <<"fetch failed">>)

(***************************************************************************)
(* lib/reddit-auth.ts                                                      *)
(***************************************************************************)
\* getRedditAccessToken up to its request: the credentials check.
getRedditAccessTokenSend(environment) ==
  IF ~Truthy(environment.REDDIT_CLIENT_ID) \/ ~Truthy(environment.REDDIT_CLIENT_SECRET)
  THEN Throw("Error", <<"Reddit client ID/secret not set in environment variables">>)
  ELSE Return([svc |-> "reddit-token",
               url |-> <<"https://www.reddit.com/api/v1/access_token">>,
               authorization |-> <<"Basic">> \o StringOf(environment.REDDIT_CLIENT_ID)
                                 \o <<":">> \o StringOf(environment.REDDIT_CLIENT_SECRET),
               body |-> <<"grant_type=client_credentials">>])

\* getRedditAccessToken from the token endpoint's reply on.
\* A getRedditAccessToken that returns data.access_token whatever it is.
AccessTokenOfUnchecked(data) ==
  IF data.threw THEN data
  ELSE IF IsNullish(data.val) THEN CannotRead(data.val, "access_token")
  ELSE Return(Get(data.val, "access_token"))

\* data.access_token of the parsed reply (or the throw of res.json()).
AccessTokenOf(data) ==
  IF data.threw THEN data
  ELSE IF IsNullish(data.val) THEN CannotRead(data.val, "access_token")
  ELSE IF ~Truthy(Get(data.val, "access_token"))
  THEN Throw("Error", <<"No access token returned from Reddit">>)
  ELSE Return(Get(data.val, "access_token"))

getRedditAccessToken(reply) ==
  IF reply.failed THEN FetchFailed
  ELSE IF ~reply.ok
  THEN Throw("Error", <<"Failed to get Reddit access token:", reply.status>>)
  ELSE AccessTokenOf(JSONparse(reply.body))

\* A fetchRedditData that sends no Authorization header.
fetchRedditDataSendUnauthorized(endpoint, accessToken) ==
  [svc |-> "reddit-api",
   url |-> <<"https://oauth.reddit.com">> \o endpoint,
   authorization |-> <<>>,
   body |-> <<>>]

\* fetchRedditData up to its request.
fetchRedditDataSend(endpoint, accessToken) ==
  [svc |-> "reddit-api",
   url |-> <<"https://oauth.reddit.com">> \o endpoint,
   authorization |-> <<"Bearer">> \o StringOf(accessToken),
   body |-> <<>>]

\* fetchRedditData from the reply on.
fetchRedditData(reply) ==
  IF reply.failed THEN FetchFailed
  ELSE IF ~reply.ok
  THEN Throw("Error", <<"Reddit API request failed:", reply.status>>)
  ELSE JSONparse(reply.body)

(***************************************************************************)
(* Source clients                                                          *)
(***************************************************************************)
\* fetchWebResults: a placeholder that resolves to [].
fetchWebResults(topic) == EmptyArr

\* The search endpoint fetchRedditPosts asks for.
RedditSearchEndpoint(topic) ==
  <<"/search?q=">> \o encodeURIComponent(topic.v)
  \o <<"&sort=relevance&limit=10&type=link">>

\* The record the callback of data.data.children.map makes of post.
PostRecord(post) ==
  IF IsNullish(post) THEN CannotRead(post, "id")
  ELSE Return(Obj(
         Prop("id", Get(post, "id"))
      @@ Prop("title", Get(post, "title"))
      @@ Prop("selftext", Get(post, "selftext"))
      @@ Prop("author", Get(post, "author"))
      @@ Prop("subreddit", Get(post, "subreddit"))
      @@ Prop("score", Get(post, "score"))
      @@ Prop("num_comments", Get(post, "num_comments"))
      @@ Prop("created_utc", Get(post, "created_utc"))
      @@ Prop("url", Get(post, "url"))
      @@ Prop("permalink",
              Str(<<"https://reddit.com">> \o StringOf(Get(post, "permalink"))))
      @@ Prop("thumbnail",
              IF Get(post, "thumbnail") # Str(<<"self">>)
              THEN Get(post, "thumbnail") ELSE JNull)))

\* The callback of data.data.children.map in fetchRedditPosts.
RedditPostOf(child) ==
  IF IsNullish(child) THEN CannotRead(child, "data")
  ELSE PostRecord(Get(child, "data"))

\* The posts of data.data.children, [] when that is no array.
PostsOfChildren(children) ==
  IF ~Truthy(children) \/ ~IsArray(children) THEN Return(EmptyArr)
  ELSE MapOrThrow([i \in 1..Len(children.v) |-> RedditPostOf(children.v[i])])

\* The posts of the outcome of fetchRedditData.
PostsOfData(data) ==
  IF data.threw THEN data
  ELSE IF IsNullish(data.val) THEN CannotRead(data.val, "data")
  ELSE PostsOfChildren(GetOpt(Get(data.val, "data"), "children"))

\* The body of fetchRedditPosts' try block from the search reply on.
RedditPostsOf(reply) == PostsOfData(fetchRedditData(reply))

\* A catch block that forgets the empty list: the failure becomes null.
OrNull(outcome) == IF outcome.threw THEN JNull ELSE outcome.val

\* try { ... } catch { return [] } of fetchRedditPosts.
OrEmptyList(outcome) == IF outcome.threw THEN EmptyArr ELSE outcome.val

\* fetchRedditPosts from the search reply on.
fetchRedditPosts(reply) == OrEmptyList(RedditPostsOf(reply))

\* fetchNewsArticles (the news route) up to its request.
fetchNewsArticlesSend(topic, environment) ==
  [svc |-> "newsapi",
   url |-> <<"https://newsapi.org/v2/everything?q=">> \o encodeURIComponent(topic.v)
           \o <<"&language=en&sortBy=publishedAt&pageSize=5&apiKey=">>
           \o StringOf(OrElse(environment.NEWS_API_KEY, Str(<<"YOUR_NEWS_API_KEY">>))),
   authorization |-> <<>>,
   body |-> <<>>]

\* return data.articles || [] inside the try block, [] from the catch.
ArticlesOf(data) ==
  IF data.threw \/ IsNullish(data.val) THEN EmptyArr
  ELSE OrElse(Get(data.val, "articles"), EmptyArr)

\* fetchNewsArticles from the reply on.
fetchNewsArticles(reply) ==
  IF reply.failed \/ ~reply.ok THEN EmptyArr
  ELSE ArticlesOf(JSONparse(reply.body))

(***************************************************************************)
(* normalizeData                                                           *)
(***************************************************************************)
\* The callback of web.map in normalizeData (both routes).
NormWeb(sourceTag, a) ==
  IF IsNullish(a) THEN CannotRead(a, "title")
  ELSE Return(Obj(
         Prop("source", Str(<<sourceTag>>))
      @@ Prop("title", OrElse(OrElse(Get(a, "title"), Get(a, "name")), EmptyStr))
      @@ Prop("url", OrElse(OrElse(Get(a, "url"), Get(a, "link")), EmptyStr))
      @@ Prop("snippet", OrElse(OrElse(Get(a, "snippet"), Get(a, "description")), EmptyStr))))

NormWebItem(a) ==
  LET d == NormWeb("Web", a)
  IN IF d.threw THEN d ELSE Return(Obj(d.val.v @@ Prop("metadata", EmptyObj)))

\* The callback of redditPosts.map in normalizeData.
NormRedditItem(post) ==
  IF IsNullish(post) THEN CannotRead(post, "title")
  ELSE Return(Obj(
         Prop("source", Str(<<"Reddit">>))
      @@ Prop("title", Get(post, "title"))
      @@ Prop("url", Get(post, "permalink"))
      @@ Prop("snippet", OrElse(Get(post, "selftext"), Get(post, "title")))
      @@ Prop("metadata", Obj(
              Prop("subreddit", Get(post, "subreddit"))
           @@ Prop("author", Get(post, "author"))
           @@ Prop("score", Get(post, "score"))
           @@ Prop("comments", Get(post, "num_comments"))
           @@ Prop("created_utc", Get(post, "created_utc"))))))

\* x.map of a value x that is no array: there is no such method.
NoMapMethod(x, name) ==
  IF IsNullish(x) THEN CannotRead(x, "map")
  ELSE Throw("TypeError", <<name, ".map is not a function">>)

\* A spread that puts the second list first.
ConcatOutcomesSecondFirst(a, b) ==
  IF a.threw THEN a ELSE IF b.threw THEN b ELSE Return(Arr(b.val.v \o a.val.v))

\* [...a, ...b] of two outcomes.
ConcatOutcomes(a, b) ==
  IF a.threw THEN a ELSE IF b.threw THEN b ELSE Return(Arr(a.val.v \o b.val.v))

\* normalizeData(web, redditPosts = []) of the multi-source route.
normalizeData(web, redditPosts) ==
  LET posts == IF redditPosts.t = "undef" THEN EmptyArr ELSE redditPosts
      normWeb == IF ~IsArray(web) THEN NoMapMethod(web, "web")
                 ELSE MapOrThrow([i \in 1..Len(web.v) |-> NormWebItem(web.v[i])])
      normReddit == IF ~IsArray(posts) THEN NoMapMethod(posts, "redditPosts")
                    ELSE MapOrThrow([i \in 1..Len(posts.v) |-> NormRedditItem(posts.v[i])])
  IN ConcatOutcomes(normWeb, normReddit)

\* The callbacks of normalizeData(news, web) of the news route.
NormNewsItem(a) ==
  IF IsNullish(a) THEN CannotRead(a, "title")
  ELSE Return(Obj(
         Prop("source", Str(<<"news">>))
      @@ Prop("title", Get(a, "title"))
      @@ Prop("url", Get(a, "url"))
      @@ Prop("snippet", OrElse(OrElse(Get(a, "description"), Get(a, "content")), EmptyStr))))

NormWebItemNews(a) == NormWeb("web", a)

normalizeDataNews(news, web) ==
  LET normNews == IF ~IsArray(news) THEN NoMapMethod(news, "news")
                  ELSE MapOrThrow([i \in 1..Len(news.v) |-> NormNewsItem(news.v[i])])
      normWeb == IF ~IsArray(web) THEN NoMapMethod(web, "web")
                 ELSE MapOrThrow([i \in 1..Len(web.v) |-> NormWebItemNews(web.v[i])])
  IN ConcatOutcomes(normNews, normWeb)

(***************************************************************************)
(* callGeminiFlash                                                         *)
(***************************************************************************)
NoSourcesInstruction == <<"No external sources provided. Rely on your internal knowledge.">>
SchemaDescription == <<"Generate a JSON object with the following exact structure:">>
JsonOnlyRule == <<"Your entire response MUST be a single, valid JSON object.">>

\* One entry of the sources listing of the multi-source route's prompt.
PromptEntry(d, i) ==
  <<"[", NumberAtom(i), "]", "Source:">> \o StringOf(Get(d, "source"))
  \o <<"Title:">> \o StringOf(Get(d, "title"))
  \o <<"Content:">> \o StringOf(Get(d, "snippet"))
  \o (IF Truthy(Get(d, "metadata"))
      THEN <<"Additional Context:">> \o JSONstringify(Get(d, "metadata"))
      ELSE <<>>)

\* One entry of the news route's prompt.
PromptEntryNews(d, i) ==
  <<"[", NumberAtom(i), "]">> \o StringOf(Get(d, "title")) \o StringOf(Get(d, "snippet"))

\* entries.join(...) from the i-th entry on.
RECURSIVE JoinEntries(_, _)
JoinEntries(entries, i) ==
  IF i > Len(entries) THEN <<>>
  ELSE entries[i] \o JoinEntries(entries, i + 1)

\* The prompt template; entries are the entries of the documents.
BuildPrompt(entries, header, topic) ==
  <<"**Topic:**">> \o topic.v \o header
  \o (IF Len(entries) > 0 THEN JoinEntries(entries, 1) ELSE NoSourcesInstruction)
  \o <<"---">> \o SchemaDescription \o JsonOnlyRule

PromptOf(route, topic, docs) ==
  IF route = "news"
  THEN BuildPrompt([i \in 1..Len(docs) |-> PromptEntryNews(docs[i], i)],
                   <<"**Sources:**">>, topic)
  ELSE BuildPrompt([i \in 1..Len(docs) |-> PromptEntry(docs[i], i)],
                   <<"**Sources (", NumberAtom(Len(docs)), "total):**">>, topic)

GeminiModel(route) ==
  IF route = "news" THEN "gemini-1.5-flash-latest" ELSE "gemini-2.0-flash"

\* callGeminiFlash up to its request: the key check and the prompt.  The
\* request's body is the prompt; the generation parameters are fixed.
callGeminiFlashSend(route, topic, docs, environment) ==
  IF ~Truthy(environment.GEMINI_API_KEY)
  THEN Throw("Error", <<"Missing Gemini API key">>)
  ELSE Return([svc |-> "gemini",
               url |-> <<"https://generativelanguage.googleapis.com/v1beta/models/",
                         GeminiModel(route), ":generateContent?key=">>
                       \o StringOf(environment.GEMINI_API_KEY),
               authorization |-> <<>>,
               body |-> PromptOf(route, topic, docs.v)])

\* data.candidates?.[0]?.content?.parts?.[0]?.text, without a fallback.
CandidateTextNoFallback(data) ==
  GetOpt(GetOpt(GetOpt(GetOpt(GetOpt(Get(data, "candidates"), "0"),
                              "content"), "parts"), "0"), "text")

\* data.candidates?.[0]?.content?.parts?.[0]?.text || '{}'
CandidateText(data) ==
  OrElse(GetOpt(GetOpt(GetOpt(GetOpt(GetOpt(Get(data, "candidates"), "0"),
                                     "content"), "parts"), "0"), "text"),
         Str(<<"{", "}">>))

\* A catch block that puts the generated text into its error.
ParsedAnalysisEchoingText(text, parsed) ==
  IF parsed.threw
  THEN Throw("Error", <<"Failed to parse analysis: ">> \o text)
  ELSE parsed

\* try { return JSON.parse(text) } catch { throw new Error(...) }
ParsedAnalysis(text, parsed) ==
  IF parsed.threw
  THEN Throw("Error", <<"Failed to parse analysis from AI response.">>)
  ELSE parsed

\* JSON.parse(text), which converts text to a string first.
AnalysisOfText(text) == ParsedAnalysis(text, JSONparse(text))

\* callGeminiFlash from the parsed reply (or the throw of res.json()) on.
AnalysisOfReply(data) ==
  IF data.threw THEN data
  ELSE IF IsNullish(data.val) THEN CannotRead(data.val, "candidates")
  ELSE AnalysisOfText(StringOf(CandidateText(data.val)))

\* A callGeminiFlash that reads the body whatever the status is.
callGeminiFlashAnyStatus(reply) ==
  IF reply.failed THEN FetchFailed
  ELSE AnalysisOfReply(JSONparse(reply.body))

\* callGeminiFlash from the reply on.
callGeminiFlash(reply) ==
  IF reply.failed THEN FetchFailed
  ELSE IF ~reply.ok THEN Throw("Error", <<"Gemini API request failed">>)
  ELSE AnalysisOfReply(JSONparse(reply.body))

(***************************************************************************)
(* POST /api/analyze                                                       *)
(***************************************************************************)
\* NextResponse.json(json, {status}).
NextResponseJson(json, status) ==
  [status |-> status, json |-> json, text |-> JSONstringify(json)]
NoResponse == [status |-> 0, json |-> Undefined, text |-> <<>>]

\* The catch block of POST.
ErrorResponse(err) ==
  NextResponseJson(
    Obj(Prop("error", OrElse(Str(err.message), Str(<<"Internal server error">>)))), 500)

InvalidTopicResponse ==
  NextResponseJson(Obj(Prop("error", Str(<<"Missing or invalid topic">>))), 400)

\* const { topic } = json, for the outcome json of req.json().
DestructuredTopic(json) ==
  IF json.threw THEN json
  ELSE IF IsNullish(json.val)
  THEN Throw("TypeError",
             <<"Cannot", "destructure", "property", "topic", "of",
               IF json.val.t = "null" THEN "null" ELSE "undefined">>)
  ELSE Return(Get(json.val, "topic"))

\* const { topic } = await req.json()
TopicOfRequest(body) == DestructuredTopic(JSONparse(body))

\* !topic || typeof topic !== 'string'
InvalidTopic(topic) == ~Truthy(topic) \/ ~IsString(topic)

\* A success body whose total counts the web results only.
SuccessBodyTotalOfWeb(topic, analysisData, docs, web, redditPosts) ==
  Obj(Prop("sourceStats", Obj(Prop("web", Num(Len(web.v)))
                           @@ Prop("reddit", Num(Len(redditPosts.v)))
                           @@ Prop("total", Num(Len(web.v)))))
   @@ Prop("sources", docs)
   @@ OwnProps(analysisData)
   @@ Prop("topic", topic))

\* The success body of the multi-source route.
SuccessBody(topic, analysisData, docs, web, redditPosts) ==
  Obj(Prop("sourceStats", Obj(Prop("web", Num(Len(web.v)))
                           @@ Prop("reddit", Num(Len(redditPosts.v)))
                           @@ Prop("total", Num(Len(docs.v)))))
   @@ Prop("sources", docs)
   @@ OwnProps(analysisData)
   @@ Prop("topic", topic))

\* The success body of the news route.
SuccessBodyNews(topic, analysisData, docs) ==
  Obj(Prop("sources", docs) @@ OwnProps(analysisData) @@ Prop("topic", topic))

(***************************************************************************)
(* app/analysis/page.tsx: fetchAnalysis from the response on               *)
(***************************************************************************)
\* x || []: a default for falsy values only.
OrEmptyArray(x) == OrElse(x, EmptyArr)

ArrayOrEmpty(x) == IF IsArray(x) THEN x ELSE EmptyArr

\* const validatedData: AnalysisData = { ... }
ValidatedData(data) ==
  Obj(Prop("summary", OrElse(Get(data, "summary"), Str(<<"No summary provided.">>)))
   @@ Prop("perspectives", ArrayOrEmpty(Get(data, "perspectives")))
   @@ Prop("contrasting_points", ArrayOrEmpty(Get(data, "contrasting_points")))
   @@ Prop("insights", ArrayOrEmpty(Get(data, "insights")))
   @@ Prop("sources", ArrayOrEmpty(Get(data, "sources"))))

\* The try block of fetchAnalysis from the outcome data of response.json().
AnalysisOfData(response, data) ==
  IF data.threw THEN data
  ELSE IF response.status # 200
  THEN IF IsNullish(data.val) THEN CannotRead(data.val, "error")
       ELSE Throw("Error",
                  StringOf(OrElse(Get(data.val, "error"),
                                  Str(<<"An unknown error occurred during analysis.">>))))
  ELSE IF IsNullish(data.val) THEN CannotRead(data.val, "summary")
  ELSE Return(ValidatedData(data.val))

\* The try block of fetchAnalysis: the analysis, or the error thrown.
AnalysisOf(response) == AnalysisOfData(response, JSONparse(response.text))

\* The page's state: before the fetch settles, and after it.
PageLoading == [loading |-> TRUE, error |-> JNull, analysis |-> JNull]
PageAfter(a) ==
  IF a.threw
  THEN [loading |-> FALSE, error |-> Str(a.err.message), analysis |-> JNull]
  ELSE [loading |-> FALSE, error |-> JNull, analysis |-> a.val]

fetchAnalysis(response) == PageAfter(AnalysisOf(response))

(***************************************************************************)
(* The environment: process.env, request bodies and upstream replies       *)
(***************************************************************************)
\* The largest number of records in an upstream listing.
MaxRecords == 2

SeqsUpTo(S, n) == UNION {[1..k -> S] : k \in 0..n}

\* The wire text of a JSON value.
Body(val) == JSONstringify(val)
NotJson == <<"<html>">>

Topics == {<<"electric", " ", "vehicles">>, <<"ai">>}

RequestBodies ==
  {<<"oops">>, Body(JNull), Body(Num(5)), Body(Arr(<<Str(<<"ai">>)>>)), Body(EmptyObj),
   Body(Obj(Prop("topic", EmptyStr))), Body(Obj(Prop("topic", Num(5)))),
   Body(Obj(Prop("topic", JNull)))}
  \cup {Body(Obj(Prop("topic", Str(t)))) : t \in Topics}

Environments ==
  [GEMINI_API_KEY : {Undefined, Str(<<"gk-secret">>)},
   REDDIT_CLIENT_ID : {Undefined, Str(<<"client-id">>)},
   REDDIT_CLIENT_SECRET : {Undefined, Str(<<"client-secret">>)},
   NEWS_API_KEY : {Undefined}]

TokenReplies ==
  {NetworkFailure, HttpReply("401", <<"Unauthorized">>), HttpReply("200", NotJson),
   HttpReply("200", Body(JNull)), HttpReply("200", Body(EmptyObj)),
   HttpReply("200", Body(Obj(Prop("access_token", EmptyStr)))),
   HttpReply("200", Body(Obj(Prop("access_token", Str(<<"tok-1">>))))),
   HttpReply("200", Body(Obj(Prop("access_token", Str(<<"tok-2">>)))))}

SelfPost ==
  Obj(Prop("kind", Str(<<"t3">>))
   @@ Prop("data", Obj(Prop("id", Str(<<"p1">>)) @@ Prop("title", Str(<<"Title", "1">>))
                    @@ Prop("selftext", Str(<<"body", "1">>)) @@ Prop("score", Num(7))
                    @@ Prop("permalink", Str(<<"/r/x/p1">>))
                    @@ Prop("thumbnail", Str(<<"self">>)))))
LinkPost ==
  Obj(Prop("kind", Str(<<"t3">>))
   @@ Prop("data", Obj(Prop("id", Str(<<"p2">>)) @@ Prop("title", Str(<<"Title", "2">>))
                    @@ Prop("selftext", EmptyStr)
                    @@ Prop("permalink", Str(<<"/r/x/p2">>))
                    @@ Prop("thumbnail", Str(<<"thumb.png">>)))))
\* A post with neither title nor text.
BlankPost ==
  Obj(Prop("kind", Str(<<"t3">>))
   @@ Prop("data", Obj(Prop("id", Str(<<"p3">>)) @@ Prop("title", EmptyStr)
                    @@ Prop("selftext", EmptyStr)
                    @@ Prop("permalink", Str(<<"/r/x/p3">>)))))
RedditChildren == {SelfPost, LinkPost, BlankPost, JNull, EmptyObj}

\* limit=10 of the search endpoint, and a listing of one more post than that.
SearchLimit == 10
ShortPost == Obj(Prop("data", Obj(Prop("title", Str(<<"T">>)))))
LongListing == [i \in 1..(SearchLimit + 1) |-> ShortPost]

RedditListing(children) == Obj(Prop("data", Obj(Prop("children", Arr(children)))))

RedditReplies ==
  {NetworkFailure, HttpReply("403", <<"Forbidden">>), HttpReply("200", NotJson),
   HttpReply("200", Body(JNull)), HttpReply("200", Body(EmptyObj)),
   HttpReply("200", Body(Obj(Prop("data", Obj(Prop("children", Str(<<"none">>)))))))}
  \cup {HttpReply("200", Body(RedditListing(c))) : c \in SeqsUpTo(RedditChildren, MaxRecords)}
  \cup {HttpReply("200", Body(RedditListing(LongListing)))}

Article ==
  Obj(Prop("title", Str(<<"Headline">>)) @@ Prop("url", Str(<<"https://news/1">>))
   @@ Prop("description", Str(<<"what", "happened">>)))
NewsArticles == {Article, EmptyObj, JNull}

NewsReplies ==
  {NetworkFailure, HttpReply("401", <<"apiKeyInvalid">>), HttpReply("200", NotJson),
   HttpReply("200", Body(JNull)), HttpReply("200", Body(EmptyObj)),
   HttpReply("200", Body(Obj(Prop("articles", Str(<<"none">>))))),
   HttpReply("200", Body(Obj(Prop("articles", Obj(Prop("message", Str(<<"none">>)))))))}
  \cup {HttpReply("200", Body(Obj(Prop("articles", Arr(a))))) :
          a \in SeqsUpTo(NewsArticles, MaxRecords)}

PerspectiveOf(sentiment) ==
  Obj(Prop("title", Str(<<"View">>)) @@ Prop("sentiment", sentiment)
   @@ Prop("key_points", Arr(<<Str(<<"point">>)>>)) @@ Prop("content", Str(<<"text">>)))

\* Texts the model generates: JSON of the asked shape, JSON of other shapes,
\* and text that is no JSON.
GeminiTexts ==
  {<<>>, <<"not", " ", "json">>, <<"{", Quote, "summary", Quote>>,
   Body(EmptyObj), Body(JNull), Body(Num(5)), Body(Str(<<"a", "b">>)),
   Body(Arr(<<Obj(Prop("summary", Str(<<"S">>)))>>)),
   Body(Obj(Prop("summary", Str(<<"S">>))
         @@ Prop("perspectives", Arr(<<PerspectiveOf(Str(<<"Positive">>)),
                                       PerspectiveOf(Str(<<"Neutral">>))>>))
         @@ Prop("contrasting_points", Arr(<<Str(<<"c">>)>>))
         @@ Prop("insights", EmptyArr))),
   Body(Obj(Prop("summary", Num(5)) @@ Prop("perspectives", Str(<<"none">>))
         @@ Prop("insights", EmptyObj))),
   Body(Obj(Prop("summary", EmptyStr)
         @@ Prop("perspectives", Arr(<<PerspectiveOf(Str(<<"Mixed">>)),
                                       Obj(Prop("title", Str(<<"View">>)))>>))
         @@ Prop("contrasting_points", JNull))),
   Body(Obj(Prop("topic", Str(<<"other">>)) @@ Prop("sources", Str(<<"mine">>))
         @@ Prop("sourceStats", Obj(Prop("total", Num(9))))))}

\* The service's reply around a generated text.
GeminiEnvelope(text) ==
  Obj(Prop("candidates",
           Arr(<<Obj(Prop("content", Obj(Prop("parts", Arr(<<Obj(Prop("text", text))>>)))))>>)))

GeminiReplies ==
  {NetworkFailure, HttpReply("500", <<"quota", "exceeded">>),
   HttpReply("503", Body(GeminiEnvelope(Str(Body(EmptyObj))))),
   HttpReply("200", NotJson), HttpReply("200", <<"Bad", " ", "Gateway">>),
   HttpReply("200", Body(JNull)), HttpReply("200", Body(EmptyObj)),
   HttpReply("200", Body(Obj(Prop("candidates", EmptyArr)))),
   HttpReply("200", Body(GeminiEnvelope(Num(5)))),
   HttpReply("200", Body(GeminiEnvelope(EmptyObj)))}
  \cup {HttpReply("200", Body(GeminiEnvelope(Str(t)))) : t \in GeminiTexts}

\* The replies a service may give in a world: every behaviour in "any", one
\* failure and a few payloads in "few".
Replies(world, svc) ==
  CASE svc = "token" ->
         IF world = "any" THEN TokenReplies
         ELSE {NetworkFailure,
               HttpReply("200", Body(Obj(Prop("access_token", Str(<<"tok-1">>)))))}
    [] svc = "reddit" ->
         IF world = "any" THEN RedditReplies
         ELSE {NetworkFailure, HttpReply("200", Body(RedditListing(<<LinkPost>>)))}
    [] svc = "news" ->
         IF world = "any" THEN NewsReplies
         ELSE {NetworkFailure, HttpReply("200", Body(Obj(Prop("articles", Arr(<<Article>>)))))}
    [] svc = "gemini" ->
         IF world = "any" THEN GeminiReplies
         ELSE {HttpReply("500", <<"quota", "exceeded">>), HttpReply("200", NotJson),
               HttpReply("200", <<"Bad", " ", "Gateway">>),
               HttpReply("200", Body(GeminiEnvelope(Str(<<"not", " ", "json">>)))),
               HttpReply("200", Body(GeminiEnvelope(Str(Body(EmptyObj)))))}

(***************************************************************************)
(* State                                                                   *)
(***************************************************************************)
VARIABLES
  env,           \* process.env
  upstream,      \* the world of upstream behaviours (see Replies)
  runs,          \* the requests being handled, by id
  analysisPage,  \* the state of the AnalysisPage component and its fetches
  tabsBar,       \* the state of a TabsBar component and of its parent
  dynamicSearch  \* the state of a DynamicSearch component and localStorage

vars == <<env, upstream, runs, analysisPage, tabsBar, dynamicSearch>>
server == <<env, upstream, runs>>
client == <<analysisPage, tabsBar, dynamicSearch>>

\* A component that is not rendered.
NotMounted == [mounted |-> FALSE]
NoClient ==
  /\ analysisPage = NotMounted
  /\ tabsBar = NotMounted
  /\ dynamicSearch = NotMounted

NoReply == [failed |-> FALSE, ok |-> FALSE, status |-> "none", body |-> <<>>]
Unused == [st |-> "unused", val |-> Undefined]
Settled(val) == [st |-> "done", val |-> val]

\* A request that has arrived and is not yet handled.
NewRun(route, body) ==
  [route |-> route, request |-> body, pc |-> "pending", topic |-> Undefined,
   web |-> Unused, reddit |-> Unused, news |-> Unused,
   docs |-> Undefined, calls |-> <<>>,
   got |-> [token |-> NoReply, reddit |-> NoReply, news |-> NoReply, gemini |-> NoReply],
   resp |-> NoResponse, page |-> PageLoading]

Routes == {"multi", "news"}

\* A POST without its catch block: the error leaves the handler unanswered.
FinishUncaught(run, response) ==
  IF response.status = 500 THEN [run EXCEPT !.pc = "crashed"]
  ELSE [run EXCEPT !.pc = "responded", !.resp = response]

Finish(run, response) == [run EXCEPT !.pc = "responded", !.resp = response]

\* await callGeminiFlash(topic, docs) up to its request req.
CallGemini(run, req) ==
  IF req.threw THEN Finish(run, ErrorResponse(req.err))
  ELSE [run EXCEPT !.pc = "synthesis", !.calls = Append(@, req.val)]

\* POST with the outcome docs of normalizeData.
SynthesizeDocs(run, environment, docs) ==
  IF docs.threw THEN Finish(run, ErrorResponse(docs.err))
  ELSE CallGemini([run EXCEPT !.docs = docs.val],
                  callGeminiFlashSend(run.route, run.topic, docs.val, environment))

\* A POST that normalizes what it has without waiting for every source.
SynthesizeWithoutWaiting(run, environment) ==
  SynthesizeDocs(run, environment,
                 IF run.route = "news"
                 THEN normalizeDataNews(IF run.news.st = "done" THEN run.news.val ELSE EmptyArr,
                                        run.web.val)
                 ELSE normalizeData(run.web.val, run.reddit.val))

\* The rest of POST once Promise.all has every source's result: normalize,
\* then call Gemini.
Synthesize(run, environment) ==
  IF \E s \in {run.web, run.reddit, run.news} : s.st \notin {"unused", "done"}
  THEN run
  ELSE SynthesizeDocs(run, environment,
                      IF run.route = "news"
                      THEN normalizeDataNews(run.news.val, run.web.val)
                      ELSE normalizeData(run.web.val, run.reddit.val))

\* fetchRedditPosts up to its first request token, or its catch.
StartReddit(run, token) ==
  IF token.threw
  THEN [run EXCEPT !.reddit = Settled(OrEmptyList(token))]
  ELSE [run EXCEPT !.reddit = [st |-> "token", val |-> Undefined],
                   !.calls = Append(@, token.val)]

\* Promise.all([fetchWebResults(topic), fetchRedditPosts(topic)]) up to the
\* first request of each source client.
StartSources(run, environment) ==
  StartReddit([run EXCEPT !.pc = "sources", !.web = Settled(fetchWebResults(run.topic))],
              getRedditAccessTokenSend(environment))

\* Promise.all([fetchNewsArticles(topic), fetchWebResults(topic)]).
StartSourcesNews(run, environment) ==
  [run EXCEPT !.pc = "sources",
              !.news = [st |-> "news", val |-> Undefined],
              !.calls = Append(@, fetchNewsArticlesSend(run.topic, environment)),
              !.web = Settled(fetchWebResults(run.topic))]

\* POST after const { topic } = await req.json().
POSTWithTopic(run, environment, topic) ==
  IF topic.threw THEN Finish(run, ErrorResponse(topic.err))
  ELSE IF InvalidTopic(topic.val) THEN Finish(run, InvalidTopicResponse)
  ELSE Synthesize(IF run.route = "news"
                  THEN StartSourcesNews([run EXCEPT !.topic = topic.val], environment)
                  ELSE StartSources([run EXCEPT !.topic = topic.val], environment),
                  environment)

\* POST from the request to its first pending await.
POST(run, environment) == POSTWithTopic(run, environment, TopicOfRequest(run.request))

\* fetchRedditPosts with the outcome token of getRedditAccessToken.
SearchWithToken(run, environment, token) ==
  IF token.threw
  THEN Synthesize([run EXCEPT !.reddit = Settled(OrEmptyList(token))], environment)
  ELSE [run EXCEPT !.reddit = [st |-> "search", val |-> Undefined],
                   !.calls = Append(@, fetchRedditDataSend(RedditSearchEndpoint(run.topic),
                                                           token.val))]

\* fetchRedditPosts resumes with the token endpoint's reply.
OnTokenReply(run, reply, environment) ==
  SearchWithToken([run EXCEPT !.got.token = reply], environment,
                  getRedditAccessToken(reply))

\* fetchRedditPosts resumes with the search reply.
OnRedditReply(run, reply, environment) ==
  Synthesize([run EXCEPT !.got.reddit = reply,
                         !.reddit = Settled(fetchRedditPosts(reply))], environment)

\* fetchNewsArticles resumes with the reply.
OnNewsReply(run, reply, environment) ==
  Synthesize([run EXCEPT !.got.news = reply,
                         !.news = Settled(fetchNewsArticles(reply))], environment)

\* A POST that sends its request to Gemini once more when the call fails.
RespondRetrying(run, analysisData) ==
  IF analysisData.threw /\ Len(run.calls) < 4
  THEN [run EXCEPT !.calls = Append(@, @[Len(@)])]
  ELSE IF analysisData.threw THEN Finish(run, ErrorResponse(analysisData.err))
  ELSE Finish(run,
              NextResponseJson(
                IF run.route = "news"
                THEN SuccessBodyNews(run.topic, analysisData.val, run.docs)
                ELSE SuccessBody(run.topic, analysisData.val, run.docs,
                                 run.web.val, run.reddit.val),
                200))

\* POST with the outcome analysisData of callGeminiFlash.
Respond(run, analysisData) ==
  IF analysisData.threw THEN Finish(run, ErrorResponse(analysisData.err))
  ELSE Finish(run,
              NextResponseJson(
                IF run.route = "news"
                THEN SuccessBodyNews(run.topic, analysisData.val, run.docs)
                ELSE SuccessBody(run.topic, analysisData.val, run.docs,
                                 run.web.val, run.reddit.val),
                200))

\* POST resumes with Gemini's reply and answers.
OnGeminiReply(run, reply) ==
  Respond([run EXCEPT !.got.gemini = reply], callGeminiFlash(reply))

(***************************************************************************)
(* Actions                                                                 *)
(***************************************************************************)
\* A request arrives and POST runs to its first pending await.
PostRequest ==
  \E r \in DOMAIN runs :
    /\ runs[r].pc = "pending"
    /\ runs' = [runs EXCEPT ![r] = POST(runs[r], env)]
    /\ UNCHANGED <<env, upstream, client>>

TokenReply ==
  \E r \in DOMAIN runs :
    /\ runs[r].pc = "sources" /\ runs[r].reddit.st = "token"
    /\ \E reply \in Replies(upstream, "token") :
         runs' = [runs EXCEPT ![r] = OnTokenReply(runs[r], reply, env)]
    /\ UNCHANGED <<env, upstream, client>>

RedditReply ==
  \E r \in DOMAIN runs :
    /\ runs[r].pc = "sources" /\ runs[r].reddit.st = "search"
    /\ \E reply \in Replies(upstream, "reddit") :
         runs' = [runs EXCEPT ![r] = OnRedditReply(runs[r], reply, env)]
    /\ UNCHANGED <<env, upstream, client>>

NewsReply ==
  \E r \in DOMAIN runs :
    /\ runs[r].pc = "sources" /\ runs[r].news.st = "news"
    /\ \E reply \in Replies(upstream, "news") :
         runs' = [runs EXCEPT ![r] = OnNewsReply(runs[r], reply, env)]
    /\ UNCHANGED <<env, upstream, client>>

\* A handler that keeps Gemini's last result in a variable of the module:
\* every run that awaits the synthesis is answered from it.
GeminiReplyShared ==
  \E r \in DOMAIN runs :
    /\ runs[r].pc = "synthesis"
    /\ \E reply \in Replies(upstream, "gemini") :
         runs' = [q \in DOMAIN runs |->
                    IF runs[q].pc = "synthesis" THEN OnGeminiReply(runs[q], reply)
                    ELSE runs[q]]
    /\ UNCHANGED <<env, upstream, client>>

GeminiReply ==
  \E r \in DOMAIN runs :
    /\ runs[r].pc = "synthesis"
    /\ \E reply \in Replies(upstream, "gemini") :
         runs' = [runs EXCEPT ![r] = OnGeminiReply(runs[r], reply)]
    /\ UNCHANGED <<env, upstream, client>>

\* The page's fetch("/api/analyze") settles with the response.
PageReply ==
  \E r \in DOMAIN runs :
    /\ runs[r].pc = "responded"
    /\ runs' = [runs EXCEPT ![r].pc = "delivered",
                            ![r].page = fetchAnalysis(runs[r].resp)]
    /\ UNCHANGED <<env, upstream, client>>

Init ==
  /\ NoClient
  /\ env \in Environments
  /\ upstream = "any"
  /\ \E route \in Routes, body \in RequestBodies :
       runs = [r \in {"r1"} |-> NewRun(route, body)]

Next ==
  \/ PostRequest
  \/ TokenReply
  \/ RedditReply
  \/ NewsReply
  \/ GeminiReply
  \/ PageReply

Spec == Init /\ [][Next]_vars

\* Two requests handled by the same process, in a world of few replies.
InitPair ==
  /\ NoClient
  /\ env \in {e \in Environments :
                Truthy(e.REDDIT_CLIENT_ID) /\ Truthy(e.REDDIT_CLIENT_SECRET)}
  /\ upstream = "few"
  /\ runs \in [{"r1", "r2"} ->
                 {NewRun(route, body) :
                    route \in Routes,
                    body \in {Body(JNull), Body(Obj(Prop("topic", Str(<<"ai">>))))}}]

SpecPair == InitPair /\ [][Next]_vars

\* The handler is run when a request arrives, and every awaited fetch
\* settles: each outbound call eventually returns or fails.
Fairness ==
  /\ WF_vars(PostRequest)
  /\ WF_vars(TokenReply)
  /\ WF_vars(RedditReply)
  /\ WF_vars(NewsReply)
  /\ WF_vars(GeminiReply)

SpecLive == Init /\ [][Next]_vars /\ Fairness

(***************************************************************************)
(* normalizeData on its own: the lists of each source are drawn from small *)
(* sets of records, and the one step of a run applies the normalizer of    *)
(* its route to them.                                                      *)
(***************************************************************************)
WebResults ==
  {Obj(Prop("title", Str(<<"w1">>)) @@ Prop("url", Str(<<"https://web/1">>))
    @@ Prop("snippet", Str(<<"found", "1">>))),
   Obj(Prop("name", Str(<<"w2">>)) @@ Prop("link", Str(<<"https://web/2">>))
    @@ Prop("description", Str(<<"found", "2">>)))}

\* The records fetchRedditPosts makes of the posts of a listing.
RedditPosts ==
  {PostRecord(Get(child, "data")).val : child \in {SelfPost, LinkPost}}

OtherArticle ==
  Obj(Prop("title", Str(<<"Headline", "2">>)) @@ Prop("url", Str(<<"https://news/2">>))
   @@ Prop("content", Str(<<"more">>)))

\* A run of route whose sources have settled with the lists first and second,
\* in the order of the arguments of the route's normalizeData.
SettledRun(route, first, second) ==
  IF route = "news"
  THEN [NewRun(route, Body(Obj(Prop("topic", Str(<<"ai">>))))) EXCEPT
          !.pc = "sources", !.topic = Str(<<"ai">>),
          !.news = Settled(Arr(first)), !.web = Settled(Arr(second))]
  ELSE [NewRun(route, Body(Obj(Prop("topic", Str(<<"ai">>))))) EXCEPT
          !.pc = "sources", !.topic = Str(<<"ai">>),
          !.web = Settled(Arr(first)), !.reddit = Settled(Arr(second))]

InitNorm ==
  /\ NoClient
  /\ env \in {e \in Environments :
                Truthy(e.REDDIT_CLIENT_ID) /\ Truthy(e.REDDIT_CLIENT_SECRET)
                /\ Truthy(e.GEMINI_API_KEY)}
  /\ upstream = "few"
  /\ \/ \E first \in SeqsUpTo(WebResults, MaxRecords),
           second \in SeqsUpTo(RedditPosts, MaxRecords) :
          runs = [r \in {"r1"} |-> SettledRun("multi", first, second)]
     \/ \E first \in SeqsUpTo({Article, OtherArticle}, MaxRecords),
           second \in SeqsUpTo(WebResults, MaxRecords) :
          runs = [r \in {"r1"} |-> SettledRun("news", first, second)]

\* const docs = normalizeData(web, redditPosts) of the multi-source route.
NormalizeMulti ==
  \E r \in DOMAIN runs :
    /\ runs[r].pc = "sources" /\ runs[r].route = "multi"
    /\ runs' = [runs EXCEPT ![r].pc = "normalized",
                            ![r].docs = normalizeData(runs[r].web.val, runs[r].reddit.val)]
    /\ UNCHANGED <<env, upstream, client>>

\* const docs = normalizeData(news, web) of the news route.
NormalizeNews ==
  \E r \in DOMAIN runs :
    /\ runs[r].pc = "sources" /\ runs[r].route = "news"
    /\ runs' = [runs EXCEPT ![r].pc = "normalized",
                            ![r].docs = normalizeDataNews(runs[r].news.val, runs[r].web.val)]
    /\ UNCHANGED <<env, upstream, client>>

NextNorm ==
  \/ NormalizeMulti
  \/ NormalizeNews

SpecNorm == InitNorm /\ [][NextNorm]_vars

(***************************************************************************)
(* app/analysis/page.tsx: the AnalysisPage component.  Its state is the    *)
(* topic of the URL, the useState values, and the fetches it has started,  *)
(* each with the topic its closure captured.                               *)
(***************************************************************************)
\* The largest number of fetches a page starts.
MaxFetches == 3

PageTopics == {<<"ai">>, <<"ev">>}

\* The keys of analysisTabConfigs, in their order.
TabKeys == <<"overview", "perspectives", "contrasts", "insights">>

\* data?.x && data.x.length > 0
HasItems(x) == Truthy(x) /\ IsArray(x) /\ Len(x.v) > 0

\* config.isVisible(data) of the tab config of key.
IsVisible(key, data) ==
  CASE key = "overview" -> Truthy(OrElse(GetOpt(data, "summary"), GetOpt(data, "sources")))
    [] key = "perspectives" -> HasItems(GetOpt(data, "perspectives"))
    [] key = "contrasts" -> HasItems(GetOpt(data, "contrasting_points"))
    [] key = "insights" -> HasItems(GetOpt(data, "insights"))

\* The keys of convertToTabItems(data); no tab item is disabled.
convertToTabItems(data) ==
  IF ~Truthy(data) THEN <<>>
  ELSE SelectSeq(TabKeys, LAMBDA key : IsVisible(key, data))

\* What the route answers to the page for a topic: an analysis with every
\* section, one with a summary only, and the 500 of a failed synthesis.
FullResult(topic) ==
  Obj(Prop("summary", Str(<<"about">> \o topic))
   @@ Prop("perspectives", Arr(<<PerspectiveOf(Str(<<"Positive">>))>>))
   @@ Prop("contrasting_points", Arr(<<Str(<<"c">>)>>))
   @@ Prop("insights", Arr(<<Str(<<"i">>)>>)))
SparseResult(topic) == Obj(Prop("summary", Str(<<"about">> \o topic)))

\* fetch() rejected: the route was not reached.
Unreachable == [status |-> -1, json |-> Undefined, text |-> <<>>]

PageResponses(topic) ==
  IF topic = <<>> THEN {InvalidTopicResponse, Unreachable}
  ELSE {NextResponseJson(SuccessBody(Str(topic), result, EmptyArr, EmptyArr, EmptyArr), 200) :
          result \in {FullResult(topic), SparseResult(topic)}}
       \cup {ErrorResponse([name |-> "Error", message |-> <<"Gemini API request failed">>]),
             Unreachable}

\* The four returns of the render of AnalysisPage.
View(p) ==
  IF p.loading THEN "loading"
  ELSE IF Truthy(p.error) THEN "error"
  ELSE IF ~Truthy(p.analysis) THEN "empty"
  ELSE "analysis"

Pending(p) == {i \in 1..Len(p.fetches) : p.fetches[i].st = "pending"}

\* fetchAnalysis up to its await: the three resets and the POST of the topic
\* of the render.  A fetch is alone while no other fetch is pending with it.
fetchAnalysisStart(p, by) ==
  [p EXCEPT !.loading = TRUE, !.error = JNull, !.analysis = JNull,
            !.fetches = Append([i \in 1..Len(p.fetches) |->
                                  IF p.fetches[i].st = "pending"
                                  THEN [p.fetches[i] EXCEPT !.alone = FALSE]
                                  ELSE p.fetches[i]],
                               [topic |-> p.topic, by |-> by, st |-> "pending",
                                response |-> NoResponse, alone |-> Pending(p) = {}])]

\* The try block of fetchAnalysis for a response or a rejected fetch.
FetchOutcome(response) ==
  IF response = Unreachable THEN FetchFailed ELSE AnalysisOf(response)

\* fetchAnalysis from its await on, with the outcome a of the try block:
\* setAnalysis or setError, then setLoading(false); handleRefresh then ends.
fetchAnalysisSettle(p, i, response, a) ==
  [p EXCEPT !.error = IF a.threw THEN Str(a.err.message) ELSE @,
            !.analysis = IF a.threw THEN @ ELSE a.val,
            !.loading = FALSE,
            !.isRefreshing = IF p.fetches[i].by = "refresh" THEN FALSE ELSE @,
            !.fetches[i].st = "settled",
            !.fetches[i].response = response]

\* useEffect(..., [topic]).
TopicEffect ==
  /\ analysisPage.effect
  /\ analysisPage' =
       IF analysisPage.topic = <<>>
       THEN [analysisPage EXCEPT !.effect = FALSE, !.loading = FALSE,
                                 !.error = Str(<<"No topic provided for analysis.">>)]
       ELSE fetchAnalysisStart([analysisPage EXCEPT !.effect = FALSE], "effect")
  /\ UNCHANGED <<server, tabsBar, dynamicSearch>>

\* The topic of the URL changes while the page stays mounted.
Navigate ==
  /\ ~analysisPage.effect
  /\ Len(analysisPage.fetches) < MaxFetches
  /\ \E topic \in PageTopics \ {analysisPage.topic} :
       analysisPage' = [analysisPage EXCEPT !.topic = topic, !.effect = TRUE]
  /\ UNCHANGED <<server, tabsBar, dynamicSearch>>

\* onRetry={fetchAnalysis} of AnalysisErrorState.
Retry ==
  /\ ~analysisPage.effect
  /\ View(analysisPage) = "error"
  /\ Len(analysisPage.fetches) < MaxFetches
  /\ analysisPage' = fetchAnalysisStart(analysisPage, "retry")
  /\ UNCHANGED <<server, tabsBar, dynamicSearch>>

\* handleRefresh up to its await.
Refresh ==
  /\ ~analysisPage.effect
  /\ View(analysisPage) = "analysis"
  /\ ~analysisPage.isRefreshing
  /\ Len(analysisPage.fetches) < MaxFetches
  /\ analysisPage' = fetchAnalysisStart([analysisPage EXCEPT !.isRefreshing = TRUE], "refresh")
  /\ UNCHANGED <<server, tabsBar, dynamicSearch>>

\* onTabChange={setActiveTab} for a click on one of the tabs shown.
SelectTab ==
  /\ ~analysisPage.effect
  /\ View(analysisPage) = "analysis"
  /\ \E i \in 1..Len(convertToTabItems(analysisPage.analysis)) :
       analysisPage' =
         [analysisPage EXCEPT !.activeTab = convertToTabItems(analysisPage.analysis)[i]]
  /\ UNCHANGED <<server, tabsBar, dynamicSearch>>

\* The POST of a fetch is answered, or the fetch is rejected.
FetchSettles ==
  /\ ~analysisPage.effect
  /\ \E i \in Pending(analysisPage) :
       \E response \in PageResponses(analysisPage.fetches[i].topic) :
         analysisPage' =
           fetchAnalysisSettle(analysisPage, i, response, FetchOutcome(response))
  /\ UNCHANGED <<server, tabsBar, dynamicSearch>>

\* No request is being handled: the route is seen through its responses.
NoServer ==
  /\ env = [GEMINI_API_KEY |-> Str(<<"gk-secret">>), REDDIT_CLIENT_ID |-> Undefined,
            REDDIT_CLIENT_SECRET |-> Undefined, NEWS_API_KEY |-> Undefined]
  /\ upstream = "few"
  /\ runs = <<>>

\* The first render: useState's initial values, the effect still to run.
InitPage ==
  /\ NoServer
  /\ tabsBar = NotMounted
  /\ dynamicSearch = NotMounted
  /\ \E topic \in PageTopics \cup {<<>>} :
       analysisPage = [mounted |-> TRUE, topic |-> topic, loading |-> TRUE,
                       error |-> JNull, analysis |-> JNull, activeTab |-> "overview",
                       isRefreshing |-> FALSE, effect |-> TRUE, fetches |-> <<>>]

NextPage ==
  \/ TopicEffect
  \/ Navigate
  \/ Retry
  \/ Refresh
  \/ SelectTab
  \/ FetchSettles

SpecPage == InitPage /\ [][NextPage]_vars

(***************************************************************************)
(* TabsBar (src/unnamed/part_004).  The component has the tabs and the     *)
(* active tab of its parent, its own focusedTab, and the tab button that   *)
(* has the focus of the document; the parent's onTabChange is setActiveTab. *)
(***************************************************************************)
NoTab == "none"
Keys == {"ArrowLeft", "ArrowRight", "Home", "End", "Enter", " ", "a"}

\* tabs.filter(tab => !tab.disabled)
EnabledTabs(tabs) == SelectSeq(tabs, LAMBDA tab : ~tab.disabled)

\* tabs.findIndex(tab => tab.key === tabKey), from 1; 0 when there is none.
FindIndex(tabs, tabKey) ==
  IF \E i \in 1..Len(tabs) : tabs[i].key = tabKey
  THEN CHOOSE i \in 1..Len(tabs) :
         tabs[i].key = tabKey /\ \A j \in 1..(i - 1) : tabs[j].key # tabKey
  ELSE 0

\* setFocusedTab(tab.key); tabRefs.current[tab.key]?.focus()
FocusOn(bar, tab) == [bar EXCEPT !.focusedTab = tab.key, !.focus = tab.key]

\* A handleTabClick that changes to whatever tab it is given.
handleTabClickAnyTab(bar, tabKey) ==
  [bar EXCEPT !.activeTab = tabKey, !.called = tabKey, !.focusedTab = NoTab]

\* handleTabClick
handleTabClick(bar, tabKey) ==
  IF FindIndex(bar.tabs, tabKey) = 0 \/ bar.tabs[FindIndex(bar.tabs, tabKey)].disabled
  THEN bar
  ELSE [bar EXCEPT !.activeTab = tabKey, !.called = tabKey, !.focusedTab = NoTab]

\* handleKeyDown, with enabledTabs and enabledIndex (from 1) as it computes
\* them.
KeyDownAmong(bar, key, tabKey, enabledTabs, enabledIndex) ==
  CASE key = "ArrowLeft" ->
         IF enabledIndex > 1 THEN FocusOn(bar, enabledTabs[enabledIndex - 1]) ELSE bar
    [] key = "ArrowRight" ->
         IF enabledIndex < Len(enabledTabs)
         THEN FocusOn(bar, enabledTabs[enabledIndex + 1]) ELSE bar
    [] key = "Home" ->
         IF Len(enabledTabs) > 0 THEN FocusOn(bar, enabledTabs[1]) ELSE bar
    [] key = "End" ->
         IF Len(enabledTabs) > 0 THEN FocusOn(bar, enabledTabs[Len(enabledTabs)]) ELSE bar
    [] key \in {"Enter", " "} -> handleTabClick(bar, tabKey)
    [] OTHER -> bar

handleKeyDown(bar, key, tabKey) ==
  KeyDownAmong(bar, key, tabKey, EnabledTabs(bar.tabs),
               FindIndex(EnabledTabs(bar.tabs), tabKey))

\* The tab lists a parent can pass: some of the tabs, in their order, each
\* enabled or disabled.
TabLists ==
  UNION {{SelectSeq([i \in 1..Len(TabKeys) |-> [key |-> TabKeys[i], disabled |-> off[i]]],
                    LAMBDA tab : tab.key \in shown) :
            off \in [1..Len(TabKeys) -> BOOLEAN]} :
         shown \in SUBSET {TabKeys[i] : i \in 1..Len(TabKeys)}}

\* The keys of the tab buttons that can have the focus or be clicked.
Focusable(bar) ==
  {bar.tabs[i].key : i \in {j \in 1..Len(bar.tabs) : ~bar.tabs[j].disabled}}

\* A tab button gets the focus (pointer or Tab key): onFocus.
TabFocus ==
  /\ \E tabKey \in Focusable(tabsBar) \ {tabsBar.focus} :
       tabsBar' = [tabsBar EXCEPT !.focus = tabKey, !.focusedTab = tabKey,
                                  !.event = <<>>]
  /\ UNCHANGED <<server, analysisPage, dynamicSearch>>

\* The focus leaves the tab bar: onBlur.
TabBlur ==
  /\ tabsBar.focus # NoTab
  /\ tabsBar' = [tabsBar EXCEPT !.focus = NoTab, !.focusedTab = NoTab, !.event = <<>>]
  /\ UNCHANGED <<server, analysisPage, dynamicSearch>>

\* onClick of a tab button; a click focuses the button first when it can
\* have the focus.
TabClick ==
  /\ \E tabKey \in {TabKeys[i] : i \in 1..Len(TabKeys)} :
       tabsBar' =
         handleTabClick([tabsBar EXCEPT
                           !.focus = IF tabKey \in Focusable(tabsBar) THEN tabKey ELSE @,
                           !.event = <<"click", tabKey>>],
                        tabKey)
  /\ UNCHANGED <<server, analysisPage, dynamicSearch>>

\* onKeyDown of the tab button that has the focus.
TabKeyDown ==
  /\ tabsBar.focus # NoTab
  /\ \E key \in Keys :
       tabsBar' = handleKeyDown([tabsBar EXCEPT !.event = <<key, tabsBar.focus>>],
                                key, tabsBar.focus)
  /\ UNCHANGED <<server, analysisPage, dynamicSearch>>

InitTabs ==
  /\ NoServer
  /\ analysisPage = NotMounted
  /\ dynamicSearch = NotMounted
  /\ \E tabs \in TabLists :
       tabsBar = [mounted |-> TRUE, tabs |-> tabs, activeTab |-> "overview",
                  called |-> NoTab, focusedTab |-> NoTab, focus |-> NoTab,
                  event |-> <<>>]

NextTabs ==
  \/ TabFocus
  \/ TabBlur
  \/ TabClick
  \/ TabKeyDown

SpecTabs == InitTabs /\ [][NextTabs]_vars

(***************************************************************************)
(* DynamicSearch (src/unnamed/part_003).  The component has the query of   *)
(* its input, its error, its search history and the corpus of its fuzzy    *)
(* search; localStorage holds the entry search-history; without an         *)
(* onSearch prop a search navigates to the analysis page.                  *)
(***************************************************************************)
\* .slice(0, 5) of the history.
HistoryLimit == 5

\* searchHistory.slice(0, 3) of the recent searches shown.
HistoryShown == 3

\* config.suggestions.categories of defaultSearchConfig.
Categories ==
  <<<<"Tech", "nology">>, <<"Politics">>, <<"Science">>, <<"Business">>, <<"Culture">>>>

\* What the user types into the input.
TypedQueries ==
  {<<>>, <<" ">>, <<"ai">>, <<"ev">>, <<"5g">>, <<"4k">>, <<"6g">>, <<"Tech">>}

\* !s.trim(): s has nothing but white space.
TrimsToEmpty(s) == \A i \in 1..Len(s) : s[i] = " "

\* arr.includes(item)
Includes(arr, item) == \E i \in 1..Len(arr) : arr[i] = item

\* Fuse's approximate match (threshold 0.4), of which the model keeps that
\* the beginning of an item matches the item.
Matches(pattern, item) ==
  /\ Len(pattern) > 0 /\ Len(pattern) <= Len(item)
  /\ SubSeq(item, 1, Len(pattern)) = pattern

\* fuse.search(pattern).map(result => result.item)
FuseSearch(corpus, pattern) == SelectSeq(corpus, LAMBDA item : Matches(pattern, item))

\* The fuzzy correction of handleSearch.
Corrected(corpus, finalQuery) ==
  IF ~Includes(corpus, finalQuery) /\ Len(FuseSearch(corpus, finalQuery)) > 0
  THEN FuseSearch(corpus, finalQuery)[1]
  ELSE finalQuery

\* arr.slice(0, n)
SliceTo(arr, n) == SubSeq(arr, 1, IF Len(arr) < n THEN Len(arr) ELSE n)

\* A history that keeps the earlier entry of the query.
UpdatedHistoryKeepingOld(searchHistory, finalQuery) ==
  SliceTo(<<finalQuery>> \o searchHistory, HistoryLimit)

\* [finalQuery, ...searchHistory.filter(item => item !== finalQuery)].slice(0, 5)
UpdatedHistory(searchHistory, finalQuery) ==
  SliceTo(<<finalQuery>> \o SelectSeq(searchHistory, LAMBDA item : item # finalQuery),
          HistoryLimit)

\* JSON.stringify of a list of strings.
HistoryText(history) == JSONstringify(Arr([i \in 1..Len(history) |-> Str(history[i])]))

\* handleSearch from the fuzzy correction on, with the history it saves;
\* the effect on searchHistory then rebuilds the corpus.
SearchFor(s, finalQuery, updatedHistory) ==
  [s EXCEPT !.error = JNull,
            !.searchHistory = updatedHistory,
            !.stored = Str(HistoryText(updatedHistory)),
            !.went = <<"/analysis?topic=">> \o encodeURIComponent(finalQuery),
            !.searchCorpus = Categories \o updatedHistory]

SearchCorrected(s, finalQuery) ==
  SearchFor(s, finalQuery, UpdatedHistory(s.searchHistory, finalQuery))

\* handleSearch(searchQuery); submitted is the query it was called for.
handleSearch(s, searchQuery) ==
  IF TrimsToEmpty(IF searchQuery # <<>> THEN searchQuery ELSE s.query)
  THEN [s EXCEPT !.error = Str(<<"Please enter a topic to analyze">>),
                 !.submitted = IF searchQuery # <<>> THEN searchQuery ELSE s.query]
  ELSE SearchCorrected([s EXCEPT !.submitted = IF searchQuery # <<>> THEN searchQuery
                                               ELSE s.query],
                       Corrected(s.searchCorpus,
                                 IF searchQuery # <<>> THEN searchQuery ELSE s.query))

\* handleInputChange
InputChange ==
  /\ \E newQuery \in TypedQueries \ {dynamicSearch.query} :
       dynamicSearch' = [dynamicSearch EXCEPT !.query = newQuery, !.error = JNull,
                                              !.event = "input"]
  /\ UNCHANGED <<server, analysisPage, tabsBar>>

\* onSubmit of the form: handleSearch().
SubmitSearch ==
  /\ dynamicSearch' = handleSearch([dynamicSearch EXCEPT !.event = "search"], <<>>)
  /\ UNCHANGED <<server, analysisPage, tabsBar>>

\* handleSuggestionClick of one of the recent searches shown
\* (searchHistory.slice(0, 3)), without an onSuggestionClick prop.
SuggestionClick ==
  /\ \E i \in 1..Len(SliceTo(dynamicSearch.searchHistory, HistoryShown)) :
       dynamicSearch' =
         handleSearch([dynamicSearch EXCEPT !.query = dynamicSearch.searchHistory[i],
                                            !.event = "search"],
                      dynamicSearch.searchHistory[i])
  /\ UNCHANGED <<server, analysisPage, tabsBar>>

\* The component after its mount effects, with no stored history.
InitSearch ==
  /\ NoServer
  /\ analysisPage = NotMounted
  /\ tabsBar = NotMounted
  /\ dynamicSearch = [mounted |-> TRUE, query |-> <<>>, error |-> JNull,
                      searchHistory |-> <<>>, stored |-> JNull, went |-> <<>>,
                      searchCorpus |-> Categories, submitted |-> <<>>,
                      event |-> "mount"]

NextSearch ==
  \/ InputChange
  \/ SubmitSearch
  \/ SuggestionClick

SpecSearch == InitSearch /\ [][NextSearch]_vars

(***************************************************************************)
(* Vocabulary of the properties                                            *)
(***************************************************************************)
Responded(run) == run.pc \in {"responded", "delivered"}

\* Requests whose topic is a non-empty string.
ValidTopicBodies == {Body(Obj(Prop("topic", Str(t)))) : t \in Topics}

\* The error message of a response, as the caller reads it.
ErrorMessage(run) == Get(run.resp.json, "error")

\* s occurs in t as a run of consecutive atoms.
IsInfix(s, t) ==
  \E i \in 0..(Len(t) - Len(s)) : \A k \in 1..Len(s) : t[i + k] = s[k]

GoodTokenReply == HttpReply("200", Body(Obj(Prop("access_token", Str(<<"tok-1">>)))))

\* Token replies that carry an access token, and the token of such a reply.
Tokens == {<<"tok-1">>, <<"tok-2">>}
TokenReplyOf(token) == HttpReply("200", Body(Obj(Prop("access_token", Str(token)))))
GoodTokenReplies == {TokenReplyOf(token) : token \in Tokens}

\* Search replies that carry a list of well-formed records.
WellFormedListings ==
  {HttpReply("200", Body(RedditListing(c))) :
     c \in SeqsUpTo({SelfPost, LinkPost, BlankPost}, MaxRecords) \cup {LongListing}}

CredentialsSet(environment) ==
  Truthy(environment.REDDIT_CLIENT_ID) /\ Truthy(environment.REDDIT_CLIENT_SECRET)

\* The community-discussion source failed: no credentials, a token failure,
\* or a search that failed or brought a malformed payload.
RedditSourceFailed(run) ==
  /\ run.reddit.st = "done"
  /\ \/ ~CredentialsSet(env)
     \/ run.got.token \in TokenReplies \ GoodTokenReplies
     \/ run.got.reddit \in RedditReplies \ WellFormedListings

\* Gemini replies whose generated text is the string t.
TextReply(t) == HttpReply("200", Body(GeminiEnvelope(Str(t))))
ParseableTexts == {t \in GeminiTexts : ~JSONparse(t).threw}
UnparseableTexts == GeminiTexts \ ParseableTexts

NoSourceStats ==
  Obj(Prop("web", Num(0)) @@ Prop("reddit", Num(0)) @@ Prop("total", Num(0)))

(***************************************************************************)
(* C1: on the multi-source route, when the topic is a non-empty string and *)
(* every source client fails, the run is not failed by that: it goes on to *)
(* the synthesis, and when the generated text parses as JSON it answers    *)
(* 200 with a result built from zero documents.                            *)
(***************************************************************************)
C1_AllSourcesFailed(run) ==
  /\ run.route = "multi"
  /\ run.request \in ValidTopicBodies
  /\ Truthy(env.GEMINI_API_KEY)
  /\ RedditSourceFailed(run)

C1_SourceFailuresNeverFailTheRun ==
  \A r \in DOMAIN runs :
    C1_AllSourcesFailed(runs[r]) =>
      /\ runs[r].docs = EmptyArr
      /\ runs[r].pc # "sources"
      /\ Responded(runs[r]) => runs[r].got.gemini \in GeminiReplies
      /\ runs[r].got.gemini \in {TextReply(t) : t \in ParseableTexts} =>
           /\ runs[r].resp.status = 200
           /\ Get(runs[r].resp.json, "sources") = EmptyArr
           /\ Get(runs[r].resp.json, "sourceStats") = NoSourceStats

C1_Witness ==
  \E r \in DOMAIN runs :
    /\ C1_AllSourcesFailed(runs[r])
    /\ runs[r].got.reddit = HttpReply("403", <<"Forbidden">>)
    /\ runs[r].got.gemini \in {TextReply(t) : t \in ParseableTexts}
    /\ runs[r].resp.status = 200

(***************************************************************************)
(* C2: a request whose topic is empty or not a string is answered 400, and *)
(* no outbound call (credential provider, source, Gemini) is made for it.  *)
(***************************************************************************)
C2_InvalidTopicRejectedBeforeAnyCall ==
  \A r \in DOMAIN runs :
    runs[r].request \notin ValidTopicBodies =>
      /\ runs[r].calls = <<>>
      /\ Responded(runs[r]) => runs[r].resp.status = 400

\* The part of C2 that the code keeps: no outbound call for such a request.
C2_NoCallForInvalidTopic ==
  \A r \in DOMAIN runs :
    runs[r].request \notin ValidTopicBodies => runs[r].calls = <<>>

(***************************************************************************)
(* C3: every request in which the topic is missing, empty or of the wrong  *)
(* type, whatever its body, is answered 400 with {error: string}, never    *)
(* 200 or 500.                                                             *)
(***************************************************************************)
C3_InvalidTopicAnswered400 ==
  \A r \in DOMAIN runs :
    (runs[r].route = "multi" /\ runs[r].request \notin ValidTopicBodies
       /\ Responded(runs[r])) =>
      /\ runs[r].resp.status = 400
      /\ DOMAIN runs[r].resp.json.v = {K("error")}
      /\ IsString(ErrorMessage(runs[r]))

(***************************************************************************)
(* C4: when the generated text is not parseable as JSON, the run answers   *)
(* 500 with a generic message that does not contain the text.              *)
(***************************************************************************)
ParseFailureMessage == Str(<<"Failed to parse analysis from AI response.">>)

C4_Answers500Generic(run, t) ==
  /\ run.resp.status = 500
  /\ ErrorMessage(run) = ParseFailureMessage
  /\ \A i \in 1..Len(t) : ~IsInfix(<<t[i]>>, ErrorMessage(run).v)

\* For every text that is no JSON, the empty text included: refuted by the
\* empty text, which callGeminiFlash replaces by "{}".
C4_UnparseableTextAnswers500 ==
  \A r \in DOMAIN runs : \A t \in UnparseableTexts :
    (runs[r].route = "multi" /\ Responded(runs[r]) /\ runs[r].got.gemini = TextReply(t))
      => C4_Answers500Generic(runs[r], t)

\* C4 for every non-empty text that is no JSON.
C4_NonEmptyUnparseableTextAnswers500 ==
  \A r \in DOMAIN runs : \A t \in UnparseableTexts \ {<<>>} :
    (runs[r].route = "multi" /\ Responded(runs[r]) /\ runs[r].got.gemini = TextReply(t))
      => C4_Answers500Generic(runs[r], t)

C4_Witness ==
  \E r \in DOMAIN runs :
    /\ runs[r].route = "multi" /\ Responded(runs[r])
    /\ runs[r].got.gemini = TextReply(<<"not", " ", "json">>)
    /\ runs[r].resp.status = 500

(***************************************************************************)
(* C5: when Gemini answers with a non-success status, the run answers 500  *)
(* with {error: string}; the reply's body is not parsed as an analysis and *)
(* no success result is returned.                                          *)
(***************************************************************************)
NonSuccessReplies == {reply \in GeminiReplies : ~reply.failed /\ ~reply.ok}

C5_NonSuccessStatusAnswers500 ==
  \A r \in DOMAIN runs :
    (runs[r].route = "multi" /\ Responded(runs[r])
       /\ runs[r].got.gemini \in NonSuccessReplies) =>
      /\ runs[r].resp.status = 500
      /\ runs[r].resp.json = Obj(Prop("error", Str(<<"Gemini API request failed">>)))

C5_Witness ==
  \E r \in DOMAIN runs :
    /\ runs[r].route = "multi" /\ Responded(runs[r])
    /\ runs[r].got.gemini = HttpReply("503", Body(GeminiEnvelope(Str(Body(EmptyObj)))))
    /\ runs[r].resp.status = 500
(***************************************************************************)
(* C6: for every generated text that parses as JSON, the analysis the page *)
(* shows has perspectives, contrasting_points and insights as arrays: the  *)
(* model's value when it is an array, the empty array otherwise; no error  *)
(* is raised.                                                              *)
(***************************************************************************)
ModelOutput(t) == JSONparse(t).val

ArrayFields == {"perspectives", "contrasting_points", "insights"}

C6_Delivered(run, t) ==
  /\ run.pc = "delivered"
  /\ run.got.gemini = TextReply(t)

SummaryPlaceholder == Str(<<"No summary provided.">>)

C7_SummaryIsNonEmptyString ==
  \A r \in DOMAIN runs : \A t \in ParseableTexts :
    C6_Delivered(runs[r], t) =>
      LET given == Get(ModelOutput(t), "summary")
          shown == Get(runs[r].page.analysis, "summary")
      IN /\ IsString(shown)
         /\ shown.v # <<>>
         /\ shown = IF IsString(given) /\ given.v # <<>> THEN given
                    ELSE SummaryPlaceholder

(***************************************************************************)
(* C8: the sentiment of every perspective of every analysis is Positive,   *)
(* Negative or Neutral.                                                    *)
(***************************************************************************)
Sentiments == {Str(<<"Positive">>), Str(<<"Negative">>), Str(<<"Neutral">>)}

C8_SentimentIsOneOfThree ==
  \A r \in DOMAIN runs :
    (runs[r].pc = "delivered" /\ IsObject(runs[r].page.analysis)) =>
      LET shown == Get(runs[r].page.analysis, "perspectives").v
      IN \A i \in 1..Len(shown) : GetOpt(shown[i], "sentiment") \in Sentiments

(***************************************************************************)
(* C9: the error message of a 500 answer depends on the kind of failure    *)
(* alone: two runs that differ only in the bodies their upstream services  *)
(* returned (both bodies JSON, or both not) answer with the same message,   *)
(* and no message holds the API key or the access token.                   *)
(***************************************************************************)
DifferOnlyInBodies(a, b) ==
  /\ a.route = b.route
  /\ a.request = b.request
  /\ \A svc \in DOMAIN a.got :
       /\ a.got[svc].failed = b.got[svc].failed
       /\ a.got[svc].status = b.got[svc].status
       /\ JSONparse(a.got[svc].body).threw = JSONparse(b.got[svc].body).threw

SecretAtoms ==
  {x.v[1] : x \in {y \in {env.GEMINI_API_KEY, env.REDDIT_CLIENT_ID,
                           env.REDDIT_CLIENT_SECRET} : IsString(y)}}
    \cup {"tok-1", "tok-2"}

C9_ErrorMessageIndependentOfPayloads ==
  /\ \A a, b \in DOMAIN runs :
       (/\ Responded(runs[a]) /\ runs[a].resp.status = 500
        /\ Responded(runs[b]) /\ runs[b].resp.status = 500
        /\ DifferOnlyInBodies(runs[a], runs[b]))
         => ErrorMessage(runs[a]) = ErrorMessage(runs[b])
  /\ \A r \in DOMAIN runs :
       (Responded(runs[r]) /\ runs[r].resp.status = 500) =>
         \A k \in SecretAtoms : ~IsInfix(<<k>>, StringOf(ErrorMessage(runs[r])))

\* The part of C9 that the code keeps: no key or token in a 500's message.
C9_NoSecretInErrorMessage ==
  \A r \in DOMAIN runs :
    (Responded(runs[r]) /\ runs[r].resp.status = 500) =>
      \A k \in SecretAtoms : ~IsInfix(<<k>>, StringOf(ErrorMessage(runs[r])))

(***************************************************************************)
(* C10: the fetch of every source client settles with a list, the empty    *)
(* list whenever the fetch failed.                                         *)
(***************************************************************************)
\* News replies that carry a list of records.
NewsListings ==
  {reply \in NewsReplies :
     /\ ~reply.failed /\ reply.ok /\ ~JSONparse(reply.body).threw
     /\ IsArray(GetOpt(JSONparse(reply.body).val, "articles"))}

C10_SourceClientsReturnLists ==
  \A r \in DOMAIN runs :
    /\ runs[r].web.st = "done" => IsArray(runs[r].web.val)
    /\ runs[r].reddit.st = "done" =>
         /\ IsArray(runs[r].reddit.val)
         /\ RedditSourceFailed(runs[r]) => runs[r].reddit.val = EmptyArr
    /\ runs[r].news.st = "done" =>
         /\ IsArray(runs[r].news.val)
         /\ runs[r].got.news \notin NewsListings => runs[r].news.val = EmptyArr
(***************************************************************************)
(* C11: when the credential provider fails (no credentials, a non-success  *)
(* status, a reply without an access token), fetchRedditPosts makes no     *)
(* content request and returns [], and the run goes on to the synthesis;   *)
(* every content request follows a successful token request of the same    *)
(* fetch and carries that token as its Bearer Authorization header.        *)
(***************************************************************************)
\* The positions of the run's outbound calls to a service.
CallsTo(run, svc) == {i \in 1..Len(run.calls) : run.calls[i].svc = svc}

TokenFailed(run) ==
  /\ run.route = "multi"
  /\ run.reddit.st = "done"
  /\ \/ ~CredentialsSet(env)
     \/ run.got.token \in TokenReplies \ GoodTokenReplies

C11_ContentRequestOnlyWithToken ==
  \A r \in DOMAIN runs :
    /\ TokenFailed(runs[r]) =>
         /\ CallsTo(runs[r], "reddit-api") = {}
         /\ runs[r].got.reddit = NoReply
         /\ runs[r].reddit.val = EmptyArr
         /\ runs[r].pc # "sources"
         /\ Truthy(env.GEMINI_API_KEY) => CallsTo(runs[r], "gemini") # {}
    /\ \A i \in CallsTo(runs[r], "reddit-api") :
         /\ \E j \in CallsTo(runs[r], "reddit-token") : j < i
         /\ \E token \in Tokens :
              /\ runs[r].got.token = TokenReplyOf(token)
              /\ runs[r].calls[i].authorization = <<"Bearer">> \o token

C11_Witness ==
  \E r \in DOMAIN runs :
    /\ TokenFailed(runs[r])
    /\ runs[r].got.token = HttpReply("401", <<"Unauthorized">>)
    /\ CallsTo(runs[r], "reddit-token") # {}
    /\ CallsTo(runs[r], "gemini") # {}

\* A content request that carries the second token.
C11_BearerWitness ==
  \E r \in DOMAIN runs : \E i \in CallsTo(runs[r], "reddit-api") :
    runs[r].calls[i].authorization = <<"Bearer", "tok-2">>

(***************************************************************************)
(* C12: the list a source client returns has at most 10 records, however   *)
(* many records the upstream payload holds.                                *)
(***************************************************************************)
C12_AtMostTenRecords ==
  \A r \in DOMAIN runs : \A source \in {runs[r].web, runs[r].reddit, runs[r].news} :
    (source.st = "done" /\ IsArray(source.val)) => Len(source.val.v) <= SearchLimit

(***************************************************************************)
(* C13: every document of the normalized list of the multi-source route,   *)
(* and so of the prompt and of the returned sources, has a non-empty title *)
(* or a non-empty snippet.                                                 *)
(***************************************************************************)
NonEmptyText(x) == IsString(x) /\ x.v # <<>>

HasSignal(doc) == NonEmptyText(GetOpt(doc, "title")) \/ NonEmptyText(GetOpt(doc, "snippet"))

C13_NoEmptyDocument ==
  \A r \in DOMAIN runs :
    /\ (runs[r].route = "multi" /\ IsArray(runs[r].docs)) =>
         \A i \in 1..Len(runs[r].docs.v) : HasSignal(runs[r].docs.v[i])
    /\ (runs[r].route = "multi" /\ Responded(runs[r]) /\ runs[r].resp.status = 200) =>
         \A i \in 1..Len(Get(runs[r].resp.json, "sources").v) :
           HasSignal(Get(runs[r].resp.json, "sources").v[i])

(***************************************************************************)
(* C14: in every success result of the multi-source route, sourceStats has *)
(* one count per source and a total; each count is the number of documents *)
(* of that source in sources, and total is the length of sources and the   *)
(* sum of the counts.                                                      *)
(***************************************************************************)
Succeeded(run) == Responded(run) /\ run.resp.status = 200

\* The number of the documents tagged with a source.
CountOf(sources, tag) ==
  Cardinality({i \in 1..Len(sources.v) : Get(sources.v[i], "source") = Str(<<tag>>)})

StatsMatch(sources, stats) ==
  /\ IsObject(stats)
  /\ DOMAIN stats.v = {K("web"), K("reddit"), K("total")}
  /\ Get(stats, "web") = Num(CountOf(sources, "Web"))
  /\ Get(stats, "reddit") = Num(CountOf(sources, "Reddit"))
  /\ Get(stats, "total") = Num(Len(sources.v))
  /\ Get(stats, "total").v = Get(stats, "web").v + Get(stats, "reddit").v

C14_SourceStatsCountSources ==
  \A r \in DOMAIN runs :
    (runs[r].route = "multi" /\ Succeeded(runs[r])) =>
      /\ IsArray(Get(runs[r].resp.json, "sources"))
      /\ StatsMatch(Get(runs[r].resp.json, "sources"), Get(runs[r].resp.json, "sourceStats"))

C14_Witness ==
  \E r \in DOMAIN runs :
    /\ runs[r].route = "multi" /\ Succeeded(runs[r])
    /\ Get(runs[r].resp.json, "sourceStats")
         = Obj(Prop("web", Num(0)) @@ Prop("reddit", Num(2)) @@ Prop("total", Num(2)))

(***************************************************************************)
(* C15: in every success result, sources is the document list the prompt   *)
(* of the run was built from, in the same order, and sourceStats is the    *)
(* value the route computed (none on the news route); no key of the model  *)
(* output changes either field.                                            *)
(***************************************************************************)
\* The prompt of the run's call to Gemini was built from docs.
PromptBuiltFrom(run, docs) ==
  \E i \in CallsTo(run, "gemini") :
    run.calls[i].body = PromptOf(run.route, run.topic, docs.v)

ComputedStats(run) ==
  IF run.route = "news" THEN Undefined
  ELSE Obj(Prop("web", Num(Len(run.web.val.v)))
        @@ Prop("reddit", Num(Len(run.reddit.val.v)))
        @@ Prop("total", Num(Len(run.docs.v))))

SourcesArePromptDocuments(run) ==
  /\ IsArray(run.docs)
  /\ Get(run.resp.json, "sources") = run.docs
  /\ PromptBuiltFrom(run, Get(run.resp.json, "sources"))

C15_SourcesAndStatsAreTheRoutes ==
  \A r \in DOMAIN runs :
    Succeeded(runs[r]) =>
      /\ SourcesArePromptDocuments(runs[r])
      /\ Get(runs[r].resp.json, "sourceStats") = ComputedStats(runs[r])

\* The part of C15 that the code keeps: sources on both routes, sourceStats
\* on the multi-source route.
C15_SourcesAreThePromptDocuments ==
  \A r \in DOMAIN runs :
    Succeeded(runs[r]) =>
      /\ SourcesArePromptDocuments(runs[r])
      /\ runs[r].route = "multi" =>
           Get(runs[r].resp.json, "sourceStats") = ComputedStats(runs[r])

(***************************************************************************)
(* C16: in every success response the topic field is the topic string of   *)
(* the request, whatever the model output holds.                           *)
(***************************************************************************)
C16_TopicEchoed ==
  \A r \in DOMAIN runs : \A t \in Topics :
    (Succeeded(runs[r]) /\ runs[r].request = Body(Obj(Prop("topic", Str(t))))) =>
      Get(runs[r].resp.json, "topic") = Str(t)

(***************************************************************************)
(* C17: in a run with a valid topic every source client is started before  *)
(* any of them is awaited; normalization, the prompt and the call to       *)
(* Gemini come only after every source client has completed; the document *)
(* list holds what the clients returned, whenever each completed.          *)
(***************************************************************************)
SourcesOf(run) ==
  IF run.route = "news" THEN {run.news, run.web} ELSE {run.web, run.reddit}

RecordsOf(source) == IF IsArray(source.val) THEN Len(source.val.v) ELSE 0

AtMostOneSynthesisCall ==
  \A r \in DOMAIN runs :
    /\ Cardinality(CallsTo(runs[r], "gemini")) <= 1
    /\ runs[r].pc = "synthesis" =>
         /\ Cardinality(CallsTo(runs[r], "gemini")) = 1
         /\ runs[r].got.gemini = NoReply
    /\ runs[r].got.gemini # NoReply => Responded(runs[r])

NoCallAfterAnswer ==
  \A r \in DOMAIN runs :
    Responded(runs[r]) =>
      /\ runs'[r].calls = runs[r].calls
      /\ runs'[r].resp = runs[r].resp

C18_SingleSynthesisCall == []AtMostOneSynthesisCall /\ [][NoCallAfterAnswer]_vars

\* A run that has answered 500 after its one call to Gemini failed.
C18_Witness ==
  \E r \in DOMAIN runs :
    /\ runs[r].pc = "delivered"
    /\ runs[r].got.gemini = HttpReply("500", <<"quota", "exceeded">>)
    /\ runs[r].resp.status = 500
    /\ Cardinality(CallsTo(runs[r], "gemini")) = 1

(***************************************************************************)
(* C19: runs share no mutable state.  In every interleaving of two runs, a *)
(* step of one run leaves the other run as it was; two runs of the same    *)
(* request that got the same replies have the same outcome (status, body,  *)
(* documents), whichever ran first and whatever became of the other; and a *)
(* run that succeeds has made its own source and synthesis calls.          *)
(***************************************************************************)
SameInputs(a, b) == a.route = b.route /\ a.request = b.request /\ a.got = b.got

SameOutcome(a, b) == a.resp = b.resp /\ a.docs = b.docs /\ a.calls = b.calls

OwnCalls(run) ==
  /\ CallsTo(run, "gemini") # {}
  /\ run.route = "multi" => CallsTo(run, "reddit-token") # {}
  /\ run.route = "news" => CallsTo(run, "newsapi") # {}

RunsAreIsolated ==
  /\ \A a, b \in DOMAIN runs :
       (Responded(runs[a]) /\ Responded(runs[b]) /\ SameInputs(runs[a], runs[b]))
         => SameOutcome(runs[a], runs[b])
  /\ \A r \in DOMAIN runs : Succeeded(runs[r]) => OwnCalls(runs[r])

OneRunPerStep ==
  \E r \in DOMAIN runs : \A q \in DOMAIN runs \ {r} : runs'[q] = runs[q]

FirstSource(run) == IF run.route = "news" THEN run.news.val.v ELSE run.web.val.v
SecondSource(run) == IF run.route = "news" THEN run.web.val.v ELSE run.reddit.val.v
FirstTag(run) == IF run.route = "news" THEN Str(<<"news">>) ELSE Str(<<"Web">>)
SecondTag(run) == IF run.route = "news" THEN Str(<<"web">>) ELSE Str(<<"Reddit">>)

\* The title a document made of record has: web results fall back to name.
TitleOf(record) == OrElse(OrElse(Get(record, "title"), Get(record, "name")), EmptyStr)

IsDocumentOf(doc, record, tag) ==
  Get(doc, "source") = tag /\ Get(doc, "title") = TitleOf(record)

ConcatenatedInOrder(run) ==
  /\ ~run.docs.threw
  /\ Len(run.docs.val.v) = Len(FirstSource(run)) + Len(SecondSource(run))
  /\ \A i \in 1..Len(FirstSource(run)) :
       IsDocumentOf(run.docs.val.v[i], FirstSource(run)[i], FirstTag(run))
  /\ \A j \in 1..Len(SecondSource(run)) :
       IsDocumentOf(run.docs.val.v[Len(FirstSource(run)) + j],
                    SecondSource(run)[j], SecondTag(run))

C20_ConcatenationInRegistrationOrder ==
  \A r \in DOMAIN runs : runs[r].pc = "normalized" => ConcatenatedInOrder(runs[r])

\* Two web results and two posts, each list of two different records, have
\* been normalized.
C20_Witness ==
  \E r \in DOMAIN runs :
    /\ runs[r].pc = "normalized" /\ runs[r].route = "multi"
    /\ Len(FirstSource(runs[r])) = 2 /\ Len(SecondSource(runs[r])) = 2
    /\ FirstSource(runs[r])[1] # FirstSource(runs[r])[2]
    /\ SecondSource(runs[r])[1] # SecondSource(runs[r])[2]
    /\ Len(runs[r].docs.val.v) = 4

(***************************************************************************)
(* C21: the prompt sent to Gemini lists the n documents of the run as n    *)
(* entries numbered 1..n in list order, each with the source tag, title,   *)
(* snippet and metadata of its document; for no document it has no entry   *)
(* and the instruction to rely on the model's own knowledge.  The schema   *)
(* description and the JSON-only rule are in every prompt.                 *)
(***************************************************************************)
\* The positions of the entry numbers "[i]" in a prompt.
MarkerPositions(prompt) ==
  {p \in 1..(Len(prompt) - 2) :
     prompt[p] = "[" /\ IsNumberAtom(prompt[p + 1]) /\ prompt[p + 2] = "]"}

\* The last position of the entry that starts at p.
EntryEnd(prompt, p) ==
  IF \E q \in MarkerPositions(prompt) : q > p
  THEN (CHOOSE q \in MarkerPositions(prompt) :
          q > p /\ \A o \in MarkerPositions(prompt) : o > p => q <= o) - 1
  ELSE Len(prompt)

Carries(entry, doc) ==
  /\ IsInfix(StringOf(Get(doc, "source")), entry)
  /\ IsInfix(StringOf(Get(doc, "title")), entry)
  /\ IsInfix(StringOf(Get(doc, "snippet")), entry)
  /\ Truthy(Get(doc, "metadata")) => IsInfix(JSONstringify(Get(doc, "metadata")), entry)

ListsEveryDocument(prompt, docs) ==
  /\ Cardinality(MarkerPositions(prompt)) = Len(docs)
  /\ \A i \in 1..Len(docs) :
       \E p \in MarkerPositions(prompt) :
         /\ prompt[p + 1] = NumberAtom(i)
         /\ \A q \in MarkerPositions(prompt) : q < p <=> NumberOfAtom(prompt[q + 1]) < i
         /\ Carries(SubSeq(prompt, p, EntryEnd(prompt, p)), docs[i])
  /\ Len(docs) = 0 <=> IsInfix(NoSourcesInstruction, prompt)
  /\ IsInfix(SchemaDescription, prompt)
  /\ IsInfix(JsonOnlyRule, prompt)

C21_PromptListsEveryDocument ==
  \A r \in DOMAIN runs : \A i \in CallsTo(runs[r], "gemini") :
    ListsEveryDocument(runs[r].calls[i].body, runs[r].docs.v)

\* The same on the multi-source route alone, where it holds.
C21_PromptListsEveryDocumentMulti ==
  \A r \in DOMAIN runs : \A i \in CallsTo(runs[r], "gemini") :
    runs[r].route = "multi" => ListsEveryDocument(runs[r].calls[i].body, runs[r].docs.v)

C21_MultiWitness ==
  \E r \in DOMAIN runs :
    /\ runs[r].route = "multi" /\ CallsTo(runs[r], "gemini") # {}
    /\ Len(runs[r].docs.v) = 2
    /\ runs[r].docs.v[1] # runs[r].docs.v[2]

(***************************************************************************)
(* C22: every perspective of an analysis delivered to the page has its     *)
(* key_points as a list and its content as text, whatever parseable text   *)
(* the model answered.                                                     *)
(***************************************************************************)
WellFormedPerspective(p) ==
  /\ IsObject(p)
  /\ IsArray(Get(p, "key_points"))
  /\ Get(p, "content").t = "str"

C22_PerspectivesCarryKeyPoints ==
  \A r \in DOMAIN runs :
    (runs[r].pc = "delivered" /\ IsObject(runs[r].page.analysis)) =>
      \A i \in 1..Len(Get(runs[r].page.analysis, "perspectives").v) :
        WellFormedPerspective(Get(runs[r].page.analysis, "perspectives").v[i])

(***************************************************************************)
(* C23: getRedditAccessToken returns a non-empty token or throws.  Without *)
(* client id or secret it throws before any request; after a non-success   *)
(* reply, or a reply without access_token, it throws, so that no search    *)
(* follows; the token a search carries is never empty or undefined.        *)
(***************************************************************************)
\* The token a content request carries as its Bearer credential.
BearerOf(call) == SubSeq(call.authorization, 2, Len(call.authorization))

C23_TokenOrThrow ==
  \A r \in DOMAIN runs :
    /\ ~CredentialsSet(env) =>
         /\ CallsTo(runs[r], "reddit-token") = {}
         /\ CallsTo(runs[r], "reddit-api") = {}
    /\ runs[r].got.token \in TokenReplies \ GoodTokenReplies =>
         /\ CallsTo(runs[r], "reddit-api") = {}
         /\ runs[r].reddit = Settled(EmptyArr)
    /\ \A i \in CallsTo(runs[r], "reddit-api") :
         /\ runs[r].calls[i].authorization[1] = "Bearer"
         /\ BearerOf(runs[r].calls[i]) \notin {<<>>, <<"undefined">>, <<"null">>}
         /\ runs[r].got.token = TokenReplyOf(BearerOf(runs[r].calls[i]))

\* The token endpoint has answered 200 with an empty access_token, and the
\* run has gone on without a search.
C23_Witness ==
  \E r \in DOMAIN runs :
    /\ runs[r].got.token = HttpReply("200", Body(Obj(Prop("access_token", EmptyStr))))
    /\ CallsTo(runs[r], "reddit-token") # {}
    /\ runs[r].reddit = Settled(EmptyArr)
    /\ runs[r].pc # "sources"

(***************************************************************************)
(* C27: when every outbound call eventually returns or fails, every        *)
(* request eventually has a response; the response has status 200, 400 or  *)
(* 500, and once given it is never replaced by another.                    *)
(***************************************************************************)
AnsweredWithStatus ==
  \A r \in DOMAIN runs :
    IF Responded(runs[r]) THEN runs[r].resp.status \in {200, 400, 500}
    ELSE runs[r].resp = NoResponse

OneResponse ==
  \A r \in DOMAIN runs : Responded(runs[r]) => runs'[r].resp = runs[r].resp

EveryRunResponded == \A r \in DOMAIN runs : Responded(runs[r])

C27_EveryRequestAnsweredOnce ==
  /\ <>EveryRunResponded
  /\ []AnsweredWithStatus
  /\ [][OneResponse]_vars

\* A run whose every upstream call failed has its response.
C27_Witness ==
  \E r \in DOMAIN runs :
    /\ runs[r].route = "multi"
    /\ runs[r].got.token = NetworkFailure
    /\ runs[r].got.gemini = NetworkFailure
    /\ Responded(runs[r]) /\ runs[r].resp.status = 500

(***************************************************************************)
(* C28: when Gemini answers with a success status and no candidate text    *)
(* (no candidates, or an empty text), the multi-source run answers 200     *)
(* with the topic, the sources and the sourceStats and nothing of a        *)
(* model, and not the 500 of an unparseable text.                          *)
(***************************************************************************)
NoTextReplies ==
  {HttpReply("200", Body(EmptyObj)),
   HttpReply("200", Body(Obj(Prop("candidates", EmptyArr)))),
   TextReply(<<>>)}

BareResult(run) ==
  Obj(Prop("topic", run.topic) @@ Prop("sources", run.docs)
      @@ Prop("sourceStats", ComputedStats(run)))

C28_NoCandidateTextAnswers200 ==
  \A r \in DOMAIN runs :
    (runs[r].route = "multi" /\ runs[r].got.gemini \in NoTextReplies) =>
      /\ Responded(runs[r])
      /\ runs[r].resp.status = 200
      /\ runs[r].resp.json = BareResult(runs[r])

\* Gemini has answered with an empty list of candidates to a run that has
\* one document.
C28_Witness ==
  \E r \in DOMAIN runs :
    /\ runs[r].route = "multi"
    /\ runs[r].got.gemini = HttpReply("200", Body(Obj(Prop("candidates", EmptyArr))))
    /\ runs[r].resp.status = 200
    /\ Len(Get(runs[r].resp.json, "sources").v) = 1

(***************************************************************************)
(* C24: on the analysis page, a fetch that fails leaves the page in the    *)
(* error state with its message; a retry is taken from the error state,    *)
(* starts a new POST for the current topic and shows the loading state     *)
(* with the error cleared; and when the retry's fetch succeeds the page    *)
(* displays its analysis.                                                  *)
(***************************************************************************)
FailedResponse(response) == response = Unreachable \/ response.status # 200

\* The fetches that settle in a step.
SettlesNow(i) ==
  /\ i \in Pending(analysisPage)
  /\ analysisPage'.fetches[i].st = "settled"

\* The page displays the analysis of a response.
Displays(p, response) ==
  /\ View(p) = "analysis"
  /\ Get(p.analysis, "summary") = Get(response.json, "summary")

FailureShowsError ==
  \A i \in 1..Len(analysisPage.fetches) :
    (SettlesNow(i) /\ FailedResponse(analysisPage'.fetches[i].response)) =>
      /\ View(analysisPage') = "error"
      /\ NonEmptyText(analysisPage'.error)

RetryRestartsPipeline ==
  (/\ Len(analysisPage'.fetches) = Len(analysisPage.fetches) + 1
   /\ analysisPage'.fetches[Len(analysisPage'.fetches)].by = "retry") =>
     /\ View(analysisPage) = "error"
     /\ analysisPage'.fetches[Len(analysisPage'.fetches)].topic = analysisPage.topic
     /\ analysisPage'.fetches[Len(analysisPage'.fetches)].st = "pending"
     /\ View(analysisPage') = "loading"
     /\ analysisPage'.error = JNull

SuccessfulRetryShowsAnalysis ==
  \A i \in 1..Len(analysisPage.fetches) :
    (/\ SettlesNow(i)
     /\ analysisPage.fetches[i].by = "retry"
     /\ ~FailedResponse(analysisPage'.fetches[i].response)) =>
       Displays(analysisPage', analysisPage'.fetches[i].response)

C24_RetryRecovers ==
  [][FailureShowsError /\ RetryRestartsPipeline /\ SuccessfulRetryShowsAnalysis]_vars

\* The same for a retry whose fetch is the only one in flight from its start
\* to its end.
SuccessfulRetryAloneShowsAnalysis ==
  \A i \in 1..Len(analysisPage.fetches) :
    (/\ SettlesNow(i)
     /\ analysisPage.fetches[i].by = "retry"
     /\ analysisPage.fetches[i].alone
     /\ ~FailedResponse(analysisPage'.fetches[i].response)) =>
       Displays(analysisPage', analysisPage'.fetches[i].response)

C24_RetryAloneRecovers ==
  [][FailureShowsError /\ RetryRestartsPipeline /\ SuccessfulRetryAloneShowsAnalysis]_vars

C24_AloneWitness ==
  \E i \in 1..Len(analysisPage.fetches) :
    /\ analysisPage.fetches[i].by = "retry" /\ analysisPage.fetches[i].alone
    /\ analysisPage.fetches[i].st = "settled"
    /\ ~FailedResponse(analysisPage.fetches[i].response)
    /\ View(analysisPage) = "analysis"

(***************************************************************************)
(* C26: when fetches of the analysis page overlap, the page is not marked  *)
(* as loaded while the fetch started last is pending; once every fetch has *)
(* settled the page shows the outcome of the fetch started last; and error *)
(* and analysis are never both set.                                        *)
(***************************************************************************)
LatestFetch(p) == p.fetches[Len(p.fetches)]

ShowsOutcomeOf(p, fetch) ==
  IF FailedResponse(fetch.response) THEN View(p) = "error"
  ELSE Displays(p, fetch.response)

C26_LatestFetchWins ==
  (analysisPage.fetches # <<>> /\ ~analysisPage.effect) =>
    /\ LatestFetch(analysisPage).st = "pending" => analysisPage.loading
    /\ Pending(analysisPage) = {} =>
         ShowsOutcomeOf(analysisPage, LatestFetch(analysisPage))
    /\ ~(Truthy(analysisPage.error) /\ Truthy(analysisPage.analysis))

(***************************************************************************)
(* C29: whenever the analysis page displays an analysis, activeTab is the  *)
(* key of one of the tabs shown for that analysis.                         *)
(***************************************************************************)
C29_ActiveTabIsVisible ==
  View(analysisPage) = "analysis" =>
    \E i \in 1..Len(convertToTabItems(analysisPage.analysis)) :
      convertToTabItems(analysisPage.analysis)[i] = analysisPage.activeTab

(***************************************************************************)
(* C25: in TabsBar the focus is only ever on an enabled tab.  After        *)
(* ArrowLeft or ArrowRight on a tab the focus is on the nearest enabled    *)
(* tab before or after it, and stays where it was when there is none;      *)
(* after Home or End it is on the first or last enabled tab; Enter and     *)
(* Space activate the tab that has the focus; and onTabChange is never     *)
(* called with the key of a disabled tab or of a tab that is not listed.   *)
(***************************************************************************)
\* The positions of the enabled tabs of the list.
EnabledAt(tabs) == {i \in 1..Len(tabs) : ~tabs[i].disabled}

PositionOf(tabs, tabKey) == CHOOSE i \in 1..Len(tabs) : tabs[i].key = tabKey

\* The positions of the enabled tabs before and after a position.
Before(tabs, i) == {j \in EnabledAt(tabs) : j < i}
After(tabs, i) == {j \in EnabledAt(tabs) : j > i}
Greatest(S) == CHOOSE i \in S : \A j \in S : j <= i
Least(S) == CHOOSE i \in S : \A j \in S : i <= j

\* Where the focus is expected after a key pressed on the tab at position i.
FocusAfter(tabs, key, i) ==
  CASE key = "ArrowLeft" ->
         IF Before(tabs, i) = {} THEN i ELSE Greatest(Before(tabs, i))
    [] key = "ArrowRight" ->
         IF After(tabs, i) = {} THEN i ELSE Least(After(tabs, i))
    [] key = "Home" -> Least(EnabledAt(tabs))
    [] key = "End" -> Greatest(EnabledAt(tabs))
    [] OTHER -> i

C25_KeyboardKeepsToEnabledTabs ==
  tabsBar.mounted =>
    /\ tabsBar.focus # NoTab =>
         \E i \in EnabledAt(tabsBar.tabs) : tabsBar.tabs[i].key = tabsBar.focus
    /\ tabsBar.called # NoTab =>
         \E i \in EnabledAt(tabsBar.tabs) : tabsBar.tabs[i].key = tabsBar.called
    /\ (tabsBar.event # <<>> /\ tabsBar.event[1] \in Keys) =>
         /\ tabsBar.focus =
              tabsBar.tabs[FocusAfter(tabsBar.tabs, tabsBar.event[1],
                                      PositionOf(tabsBar.tabs, tabsBar.event[2]))].key
         /\ tabsBar.event[1] \in {"Enter", " "} =>
              tabsBar.called = tabsBar.event[2] /\ tabsBar.activeTab = tabsBar.event[2]

\* ArrowRight on the first tab of four has passed over two disabled tabs.
C25_Witness ==
  /\ tabsBar.mounted
  /\ Len(tabsBar.tabs) = 4
  /\ tabsBar.tabs[2].disabled /\ tabsBar.tabs[3].disabled
  /\ tabsBar.event = <<"ArrowRight", "overview">>
  /\ tabsBar.focus = "insights"

(***************************************************************************)
(* C30: in DynamicSearch, starting from no stored history, the history     *)
(* always has at most 5 entries and no duplicate, its first entry is the   *)
(* query submitted last, and the history stored in localStorage is the     *)
(* history in memory; a search for an empty or blank query sets an error   *)
(* and changes neither the history nor its stored copy, and navigates      *)
(* nowhere.                                                                *)
(***************************************************************************)
HistoryBounded ==
  /\ Len(dynamicSearch.searchHistory) <= HistoryLimit
  /\ \A i, j \in 1..Len(dynamicSearch.searchHistory) :
       i # j => dynamicSearch.searchHistory[i] # dynamicSearch.searchHistory[j]

\* The stored entry, read back, is the list of the history's strings.
StoredIsHistory ==
  IF dynamicSearch.searchHistory = <<>> THEN dynamicSearch.stored = JNull
  ELSE /\ IsString(dynamicSearch.stored)
       /\ ~JSONparse(dynamicSearch.stored.v).threw
       /\ JSONparse(dynamicSearch.stored.v).val.v =
            [i \in 1..Len(dynamicSearch.searchHistory) |->
               Str(dynamicSearch.searchHistory[i])]

\* The last search was for a query that is not blank.
Searched ==
  dynamicSearch.event = "search" /\ ~TrimsToEmpty(dynamicSearch.submitted)

SubmittedIsFirst ==
  Searched => dynamicSearch.searchHistory[1] = dynamicSearch.submitted

\* A step that is a search for an empty or blank query.
BlankSearchRejected ==
  (dynamicSearch'.event = "search" /\ TrimsToEmpty(dynamicSearch'.submitted)) =>
    /\ NonEmptyText(dynamicSearch'.error)
    /\ dynamicSearch'.searchHistory = dynamicSearch.searchHistory
    /\ dynamicSearch'.stored = dynamicSearch.stored
    /\ dynamicSearch'.went = dynamicSearch.went

SearchedIsFirst ==
  Searched =>
    /\ dynamicSearch.went =
         <<"/analysis?topic=">> \o encodeURIComponent(dynamicSearch.searchHistory[1])
    /\ \/ dynamicSearch.searchHistory[1] = dynamicSearch.submitted
       \/ Matches(dynamicSearch.submitted, dynamicSearch.searchHistory[1])

====
